---- MODULE Spec2Model ----
(***************************************************************************)
(* A model of torch/_inductor/codegen/cpp.py: the scalar and vector C++    *)
(* kernels, the vectorization checker, the loop split and the parallel     *)
(* depth heuristic, together with the meaning of the C++ text they emit.   *)
(***************************************************************************)
EXTENDS Integers, Sequences, FiniteSets, TLC

\* ------------------------------------------------------------------ bounds
MaxOps == 3            \* kernel operations requested in one kernel session
MaxN == 6              \* largest loop size that is split
MaxW == 3              \* largest tiling factor (vector width)
EquivN == 3            \* largest buffer of the scalar/vector comparison
MaxLen == 4            \* longest value sequence that is reduced
MaxThreads == 256      \* largest thread count the depth heuristic is asked for
MaxNodes == 3          \* most nodes of one fused group
MaxCalls == 4          \* calls made on one work-sharing coordinator or group

\* --------------------------------------------------------- Python values
\* None in a tuple-valued field: a value that no tuple of ranges equals.
None == <<-1>>
\* None in an integer-valued field.
NoneInt == -1
\* bool(x) of a field holding None or a tuple.
Truthy(x) == x # None /\ x # <<>>

\* ------------------------------------------------------------ dtype tables
DTYPE_TO_CPP ==
  [float32 |-> "float", float64 |-> "double", float16 |-> "half",
   int64 |-> "long", int32 |-> "int", int16 |-> "short",
   int8 |-> "signed char", uint8 |-> "unsigned char", bool |-> "bool",
   bfloat16 |-> "bfloat16"]

DTypes == DOMAIN DTYPE_TO_CPP

is_float_dtype(dtype) == dtype \in {"float32", "float64", "float16", "bfloat16"}

\* The graph's buffers and their element types (V.graph.get_dtype).
get_dtype(name) ==
  CASE name = "in0" -> "float32"
    [] name = "in1" -> "uint8"
    [] name = "in2" -> "float16"
    [] name = "in3" -> "int64"
    [] name = "buf0" -> "float32"
    [] name = "buf1" -> "int64"
    [] OTHER -> "float32"

\* `"buf" in name`
HasBuf(name) == name \in {"buf0", "buf1"}

\* --------------------------------------------------- emitted statements
\* An index expression c*itervars[-1] + k over the innermost iteration
\* variable is the pair <<c, k>>; cexpr prints distinct expressions as
\* distinct text, so the pair stands for the printed text.
Idx(c, k) == <<c, k>>
NoIdx == <<>>

\* The text of an expression handed to the common-subexpression cache.
Expr(txt, buf, idx) == [txt |-> txt, buf |-> buf, idx |-> idx]

\* One emitted line: dst is the temporary it defines or updates (-1: none),
\* val the temporary it reads (-1: none), arg whatever else the text holds
\* (a reduction kind, an initial value).
Line(txt, buf, idx, dst, val, arg) ==
  [txt |-> txt, buf |-> buf, idx |-> idx, dst |-> dst, val |-> val,
   arg |-> arg]

VARIABLES
  \* CppKernel / CppVecKernel fields
  kclass,              \* "scalar" (CppKernel) or "vec" (CppVecKernel)
  num_threads,         \* self.num_threads
  dynamic_threads,     \* config.cpp.dynamic_threads
  simd_nelements,      \* self.simd_nelements
  call_ranges, ranges, itervars, reduction_depth,
  loads, stores,       \* the loop body's load and store buffers
  reduction_prefix, reduction_suffix, reduction_var_map,
  var_vec_buf_map, reduction_omp_dec,
  cse_cache, cse_counter, store_cache,
  input_buffers, output_buffers,   \* self.args
  index_value_name_counter,
  \* the session driving the kernel
  nbind,               \* completed set_ranges calls
  finalized,           \* codegen_loops has emitted the kernel
  loops_code,          \* what codegen_loops spliced into the group's code
  load_log,            \* the loads that returned: buffer, index, handle, lines added
  nops,                \* operations requested so far
  ret,                 \* the last call: its name, inputs and result
  raised               \* the exception that ended the session ("" : none)

VARIABLES
  \* the loop level that is split, and the emitted loops being run
  N,                   \* the size of the innermost range
  loop,                \* the level LoopNestWithSplit.build made for it
  main_loop, tail_loop,
  split_pc,            \* "init", "built", "run", "scalar", "done"
  mcur, tcur, scur,    \* the loop variables of the main, tail and scalar-only loops
  cover,               \* element index -> how often main or tail handled it
  in0, in1,            \* the input buffers' contents
  out_split,           \* the output written by vector main + scalar tail
  out_scalar           \* the output written by the scalar-only rendering

splitVars ==
  <<N, loop, main_loop, tail_loop, split_pc, mcur, tcur, scur, cover, in0, in1,
    out_split, out_scalar>>

VARIABLES
  \* one reduction run by the emitted scalar code
  a_type,              \* the reduction kind
  a_dtype,             \* the source element type
  a_vals,              \* the values, by iteration
  a_i,                 \* the reduction loop's variable
  a_acc,               \* the accumulator: [index, value]
  a_out,               \* the output element the suffix writes
  a_pc                 \* "start", "loop", "suffix", "done"

argVars == <<a_type, a_dtype, a_vals, a_i, a_acc, a_out, a_pc>>

VARIABLES
  \* one accumulator taken from its initial value through one combine
  r_type, r_dtype, r_vec, r_x, r_var, r_pc

redVars == <<r_type, r_dtype, r_vec, r_x, r_var, r_pc>>

VARIABLES
  \* CppVecKernelChecker
  simd_vec             \* the verdict

checkerVars == <<simd_vec>>

VARIABLES
  \* one call of CppKernel.decide_parallel_depth(ranges, threads)
  p_call_ranges,       \* self.call_ranges, whose product is size_hint()
  p_ranges, p_threads, \* the arguments
  p_min_chunk,         \* config.cpp.min_chunk_size
  p_seq, p_par, p_depth,
  p_k,                 \* the position of `for expr in ranges`
  p_pc                 \* "start", "loop", "after", "done"

parVars ==
  <<p_call_ranges, p_ranges, p_threads, p_min_chunk, p_seq, p_par, p_depth,
    p_k, p_pc>>

VARIABLES
  \* one call of CppScheduling.can_vec(nodes)
  vec_isa,             \* codecache.pick_vec_isa()
  wrapper_code,        \* V.graph.wrapper_code: which object
  ops_handler,         \* V.ops: which object
  kernel_handler,      \* V.kernel: which object
  handler_stack,       \* what the open handler contexts restore on exit
  orig_wrapper_code,   \* kernel_checker._orig_wrapper_code
  args_table,          \* argument tables by object: "group" and "copy"
  checker_args,        \* which table the checker holds
  cv_nodes,            \* the nodes: what running each does
  cv_i,                \* the position of `for node in nodes`
  cv_runs,             \* node -> the times node.run was called
  cv_exc,              \* the exception leaving the with block, "" if none
  cv_out,              \* what can_vec returned or raised
  cv_before,           \* the objects active and the table before the call
  cv_pc                \* "start", "run", "exit", "done"

canvecVars ==
  <<vec_isa, wrapper_code, ops_handler, kernel_handler, handler_stack,
    orig_wrapper_code, args_table, checker_args, cv_nodes, cv_i, cv_runs,
    cv_exc, cv_out, cv_before, cv_pc>>

VARIABLES
  \* a KernelGroup, its WorkSharing and the wrapper it is flushed to
  ws,                  \* WorkSharing: [code, in_parallel, num_threads, stack]
  count,               \* KernelGroup.count
  group_id,            \* which KernelGroup the scheduler holds
  wrapper_calls,       \* the artifacts handed to the wrapper, in order
  kernel_suffix,       \* the wrapper's kernel name counter
  g_calls,             \* calls made so far
  g_ret                \* the last call and the state before it

groupVars ==
  <<ws, count, group_id, wrapper_calls, kernel_suffix, g_calls, g_ret>>

VARIABLES
  \* a LoopNestWithSplit from build to the code generated from it
  loop_nest,           \* [root: path -> LoopLevel, kernel]
  n_kernel,            \* the kernels' ranges, reduction depth and kind
  n_vec,               \* whether can_vec allowed the vector kernel
  n_split,             \* <<main_loop, tail_loop>>: what split_with_tiling gave
  n_par,               \* the parallel depth decide_parallel_depth chose
  n_threads,           \* parallel_num_threads()
  n_gcc,               \* codecache.is_gcc()
  n_pc                 \* "start", "built", "split", "main_set", "ready", "done"

nestVars ==
  <<loop_nest, n_kernel, n_vec, n_split, n_par, n_threads, n_gcc, n_pc>>

VARIABLES
  \* the loop levels as Python objects: who refers to which
  heap,                \* [lv, ls, dm, kn]: levels, lists, dicts, kernels
  h_root,              \* loop_nest.root: a list
  h_k,                 \* the kernel's ranges, reduction depth and kind
  h_depth,             \* the depth split_with_tiling is called at
  h_ret,               \* <<main_loop, tail_loop>> it returned
  h_orig,              \* the level it replaced
  h_before,            \* the heap before set_kernel
  h_pc                 \* "start", "built", "split", "set"

heapVars == <<heap, h_root, h_k, h_depth, h_ret, h_orig, h_before, h_pc>>

VARIABLES
  \* an argmax / argmin reduction loop run by threads, one chunk each
  c_type,              \* "argmax" or "argmin"
  c_vals,              \* the values of the reduction iterations
  c_cuts,              \* c_cuts[k]: the iteration after the last of chunk k
  c_k,                 \* the chunk being run
  c_i,                 \* the iteration variable
  c_priv,              \* the thread's private copy of tmpvar
  c_out,               \* the shared tmpvar
  c_pc                 \* "start", "chunk", "loop", "done"

combVars ==
  <<c_type, c_vals, c_cuts, c_k, c_i, c_priv, c_out, c_pc>>

VARIABLES
  q_vec,               \* the vector kernel's cse: [cache, counter]
  q_sc,                \* the scalar kernel's cse: [cache, counter]
  q_vals,              \* the values of the node body: [vec, sc] handles
  q_ok,                \* the checker's simd_vec for the body so far
  q_out,               \* the accumulator named by each reduction line
  q_pc                 \* "body", "reduced", "rejected"

pairVars ==
  <<q_vec, q_sc, q_vals, q_ok, q_out, q_pc>>

VARIABLES
  k_group,             \* group of the node list's reduction node, or of all
  k_rgroup,            \* its reduction_group
  k_nodes,             \* the fused nodes: [grp, raises]
  k_i,                 \* the position of `for node in nodes`
  k_in_suffix,         \* create_kernel's in_suffix
  k_log,               \* the nodes run so far: [node, suffix]
  k_self,              \* the kernel: loads, compute, stores, cse (object
                       \* numbers) and reduction_suffix
  k_obj,               \* k_obj[n]: the contents of object n
  k_tmp,               \* the temporaries named so far
  k_before,            \* the kernel and the objects at the last entry of
                       \* write_to_suffix, and what the block emitted
  k_exc,               \* the exception that left create_kernel, "" if none
  k_pc                 \* "idle", "run", "done", "failed"

createVars ==
  <<k_group, k_rgroup, k_nodes, k_i, k_in_suffix, k_log, k_self, k_obj, k_tmp,
    k_before, k_exc, k_pc>>

\* the parts modelled last
lastVars == <<heapVars, combVars, pairVars, createVars>>

\* the parts modelled after the kernel's
laterVars == <<canvecVars, groupVars, nestVars, lastVars>>

kernelVars ==
  <<kclass, num_threads, dynamic_threads, simd_nelements,
    call_ranges, ranges, itervars, reduction_depth, loads, stores,
    reduction_prefix, reduction_suffix, reduction_var_map, var_vec_buf_map,
    reduction_omp_dec, cse_cache, cse_counter, store_cache, input_buffers, output_buffers,
    index_value_name_counter, nbind, finalized, loops_code, load_log, nops,
    ret, raised>>

vars ==
  <<kernelVars, splitVars, argVars, redVars, checkerVars, parVars, laterVars>>

\* what the actions of each part leave alone
notKernel ==
  <<splitVars, argVars, redVars, checkerVars, parVars, laterVars>>
notSplit ==
  <<kernelVars, argVars, redVars, checkerVars, parVars, laterVars>>
notArg ==
  <<kernelVars, splitVars, redVars, checkerVars, parVars, laterVars>>
notRed ==
  <<kernelVars, splitVars, argVars, checkerVars, parVars, laterVars>>
\* the checker is a kernel: it has the kernel's fields, and changes few
notChecker ==
  <<splitVars, argVars, redVars, parVars, laterVars, kclass, num_threads,
    dynamic_threads, simd_nelements, call_ranges, ranges, itervars,
    reduction_depth, loads, stores, reduction_prefix, reduction_suffix,
    reduction_var_map, var_vec_buf_map, reduction_omp_dec, cse_cache,
    store_cache, input_buffers, output_buffers, index_value_name_counter,
    nbind, finalized, loops_code, load_log>>
notPar ==
  <<splitVars, argVars, redVars, checkerVars, laterVars, kclass, num_threads,
    simd_nelements, call_ranges, ranges, itervars, reduction_depth, loads,
    stores, reduction_prefix, reduction_suffix, reduction_var_map,
    var_vec_buf_map, reduction_omp_dec, cse_cache, cse_counter, store_cache,
    input_buffers, output_buffers, index_value_name_counter, nbind, finalized,
    loops_code, load_log, nops, ret, raised>>

\* ------------------------------------------------------ the call record
Ret(op, buf, idx, mode, val, prev) ==
  [op |-> op, buf |-> buf, idx |-> idx, mode |-> mode, val |-> val,
   prev |-> prev]
\* prev: the kernel's position when the call was made
Position ==
  [nbind |-> nbind, finalized |-> finalized, nloads |-> Len(loads),
   nstores |-> Len(stores), nprefix |-> Len(reduction_prefix),
   nsuffix |-> Len(reduction_suffix), call_ranges |-> call_ranges,
   itervars |-> itervars, reduction_depth |-> reduction_depth,
   ranges |-> ranges, simd_vec |-> simd_vec,
   reduction_var_map |-> reduction_var_map]

\* ----------------------------------------------------------------- CSE
\* cse.generate(buffer, expr, write): the cache maps an expression's text to
\* the temporary first assigned to it.
CseHit(expr) == \E e \in cse_cache : e.key = expr
CseVar(expr) ==
  IF CseHit(expr) THEN (CHOOSE e \in cse_cache : e.key = expr).var
  ELSE cse_counter
CseCacheAfter(expr) ==
  IF CseHit(expr) THEN cse_cache
  ELSE cse_cache \cup {[key |-> expr, var |-> cse_counter]}
CseCounterAfter(expr) ==
  IF CseHit(expr) THEN cse_counter ELSE cse_counter + 1
CseBufferAfter(buffer, expr, write) ==
  IF CseHit(expr) \/ ~write THEN buffer
  ELSE Append(buffer, Line(expr.txt, expr.buf, expr.idx, cse_counter, -1, ""))

\* --------------------------------------------------- CppKernel.__init__
KernelInit ==
  /\ call_ranges = None
  /\ ranges = None
  /\ itervars = None
  /\ reduction_depth = NoneInt
  /\ loads = <<>>
  /\ stores = <<>>
  /\ reduction_prefix = <<>>
  /\ reduction_suffix = <<>>
  /\ reduction_var_map = {}
  /\ var_vec_buf_map = {}
  /\ reduction_omp_dec = {}
  /\ cse_cache = {}
  /\ cse_counter = 0
  /\ store_cache = {}
  /\ input_buffers = {}
  /\ output_buffers = {}
  /\ index_value_name_counter = 1
  /\ nbind = 0
  /\ finalized = FALSE
  /\ loops_code = <<>>
  /\ load_log = <<>>
  /\ nops = 0
  /\ raised = ""
  /\ ret = Ret("init", "", NoIdx, "", -1, [nbind |-> 0, finalized |-> FALSE,
               nloads |-> 0, nstores |-> 0, nprefix |-> 0, nsuffix |-> 0,
               call_ranges |-> None, itervars |-> None,
               reduction_depth |-> NoneInt, ranges |-> None,
               simd_vec |-> TRUE, reduction_var_map |-> {}])

\* a fresh scalar kernel that no action touches
KernelIdle ==
  /\ kclass = "scalar"
  /\ num_threads = 1
  /\ simd_nelements = 8
  /\ KernelInit

Live == raised = "" /\ nops < MaxOps

\* ------------------------------------------------- CppKernel.set_ranges
\* itervars i0 .. i(n-1) are the integers 0 .. n-1
IterVarsOf(n) == [k \in 1..n |-> k - 1]

RangePairs ==
  {<< <<>>, <<>> >>, << <<2>>, <<>> >>, << <<2>>, <<3>> >>,
   << <<2, 3>>, <<>> >>, << <<>>, <<3>> >>}

SetRangesRebinds == ~Truthy(call_ranges)

set_ranges(lengths, reduction_lengths) ==
  /\ Live
  /\ UNCHANGED notKernel
  /\ nops' = nops + 1
  /\ ret' = Ret("set_ranges", "", lengths \o reduction_lengths, "",
                Len(lengths), Position)
  /\ IF ~SetRangesRebinds
       THEN /\ raised' =
                 IF call_ranges # lengths \o reduction_lengths
                      \/ reduction_depth # Len(lengths)
                   THEN "AssertionError" ELSE ""
            /\ nbind' = IF raised' = "" THEN nbind + 1 ELSE nbind
            /\ UNCHANGED <<call_ranges, ranges, itervars, reduction_depth>>
       ELSE /\ call_ranges' = lengths \o reduction_lengths
            /\ ranges' = lengths \o reduction_lengths
            /\ itervars' = IterVarsOf(Len(lengths \o reduction_lengths))
            /\ reduction_depth' = Len(lengths)
            /\ raised' = ""
            /\ nbind' = nbind + 1
  /\ UNCHANGED <<kclass, num_threads, dynamic_threads, simd_nelements, loads,
                 stores, reduction_prefix, reduction_suffix, reduction_var_map,
                 var_vec_buf_map, reduction_omp_dec, cse_cache, cse_counter,
                 store_cache, input_buffers, output_buffers,
                 index_value_name_counter, finalized, loops_code, load_log>>

SetRanges == \E p \in RangePairs : set_ranges(p[1], p[2])

\* ------------------------------------------------------------ KernelArgs
\* args.input(name) / args.output(name) register the buffer and hand back
\* its argument name, one per buffer: the buffer's name stands for it.
ArgsInput(name) == input_buffers \cup {name}
ArgsOutput(name) == output_buffers \cup {name}

\* V.graph.removed_buffers
removed_buffers == {}

\* self.itervars[-1] raises on None (TypeError) and on [] (IndexError)
InnermostError ==
  IF itervars = None THEN "TypeError"
  ELSE IF Len(itervars) = 0 THEN "IndexError" ELSE ""

\* ------------------------------------------------------- CppKernel.load
ScalarLoadExpr(name, index) ==
  Expr(IF get_dtype(name) \in {"float16", "bfloat16"}
         THEN "static_cast<float>(var[idx])" ELSE "var[idx]",
       name, index)

CppKernel_load(name, index) ==
  /\ kclass = "scalar"
  /\ input_buffers' = ArgsInput(name)
  /\ loads' = CseBufferAfter(loads, ScalarLoadExpr(name, index), TRUE)
  /\ cse_cache' = CseCacheAfter(ScalarLoadExpr(name, index))
  /\ cse_counter' = CseCounterAfter(ScalarLoadExpr(name, index))
  /\ ret' = Ret("load", name, index, "", CseVar(ScalarLoadExpr(name, index)),
                Position)
  /\ raised' = ""
  /\ UNCHANGED var_vec_buf_map

\* ------------------------------------------ CppVecKernel.transform_index
transform_index(index) == Idx(index[1] * simd_nelements, index[2])

\* ---------------------------------------------------- CppVecKernel.load
IsFlagDtype(name) == get_dtype(name) \in {"bool", "uint8"}

VecLoadExpr(name, index) ==
  IF index = transform_index(index)
    THEN Expr("at::vec::Vectorized<float>(var[idx])", name, index)
  ELSE IF IsFlagDtype(name)
    THEN Expr("at::vec::Vectorized<float>::loadu(g_tmp_buffer_var)", name, NoIdx)
  ELSE Expr("at::vec::Vectorized<float>::loadu(var + idx)", name,
            transform_index(index))

\* the lines CppVecKernel.load writes to self.loads itself, before cse.generate
VecLoadScratchLines(name, index) ==
  IF index # transform_index(index) /\ IsFlagDtype(name)
    THEN (IF name \notin var_vec_buf_map
            THEN <<Line("float g_tmp_buffer_var[nelements] = {0}", name, NoIdx,
                        -1, -1, "")>>
            ELSE <<>>)
         \o <<Line("flag_to_float(var + idx, g_tmp_buffer_var, nelements)",
                   name, transform_index(index), -1, -1, "")>>
    ELSE <<>>

CppVecKernel_load(name, index) ==
  /\ kclass = "vec"
  /\ input_buffers' = ArgsInput(name)
  /\ IF InnermostError # ""
       THEN /\ raised' = InnermostError
            /\ ret' = Ret("load", name, index, "", -1, Position)
            /\ UNCHANGED <<loads, cse_cache, cse_counter, var_vec_buf_map>>
       ELSE /\ raised' = ""
            /\ var_vec_buf_map' =
                 IF index # transform_index(index) /\ IsFlagDtype(name)
                   THEN var_vec_buf_map \cup {name} ELSE var_vec_buf_map
            /\ loads' = CseBufferAfter(loads \o VecLoadScratchLines(name, index),
                                       VecLoadExpr(name, index), TRUE)
            /\ cse_cache' = CseCacheAfter(VecLoadExpr(name, index))
            /\ cse_counter' = CseCounterAfter(VecLoadExpr(name, index))
            /\ ret' = Ret("load", name, index, "",
                          CseVar(VecLoadExpr(name, index)), Position)

LoadNames == {"in0", "in1", "in2"}
LoadIndexes == {Idx(0, 0), Idx(1, 0), Idx(1, 1)}

Load ==
  /\ Live
  /\ UNCHANGED notKernel
  /\ nops' = nops + 1
  /\ \E name \in LoadNames, index \in LoadIndexes :
       CppKernel_load(name, index) \/ CppVecKernel_load(name, index)
  /\ load_log' =
       IF raised' = ""
         THEN Append(load_log, [buf |-> ret'.buf, idx |-> ret'.idx,
                                val |-> ret'.val,
                                added |-> Len(loads') - Len(loads)])
         ELSE load_log
  /\ UNCHANGED <<kclass, num_threads, dynamic_threads, simd_nelements,
                 call_ranges, ranges, itervars, reduction_depth, stores,
                 reduction_prefix, reduction_suffix, reduction_var_map,
                 reduction_omp_dec, store_cache, output_buffers,
                 index_value_name_counter, nbind, finalized, loops_code>>

\* ------------------------------------------------------ CppKernel.store
\* the plain `+=` is chosen when the thread count is known to be one
PlainAccumulate_ignoring_dynamic == num_threads = 1
PlainAccumulate == ~dynamic_threads /\ num_threads = 1

ScalarStoreLine(name, index, value, mode) ==
  IF mode = "None" THEN Line("var[idx] = value", name, index, -1, value, "")
  ELSE IF PlainAccumulate
    THEN Line("var[idx] += value", name, index, -1, value, "")
  ELSE Line("atomic_add(&var[idx], value)", name, index, -1, value, "")

CppKernel_store(name, index, value, mode) ==
  /\ kclass = "scalar"
  /\ ret' = Ret("store", name, index, mode, value, Position)
  /\ IF ~HasBuf(name)
       THEN /\ raised' = "AssertionError"
            /\ UNCHANGED <<output_buffers, stores>>
       ELSE /\ output_buffers' = ArgsOutput(name)
            /\ IF mode \in {"None", "atomic_add"}
                 THEN /\ raised' = ""
                      /\ stores' = Append(stores,
                                     ScalarStoreLine(name, index, value, mode))
                 ELSE /\ raised' = "NotImplementedError"
                      /\ UNCHANGED stores

\* --------------------------------------------------- CppVecKernel.store
\* `assert new_index != expanded_index` fails: the store is a broadcast
BroadcastIndex_allowed(index) == FALSE
BroadcastIndex(index) == transform_index(index) = index

CppVecKernel_store(name, index, value, mode) ==
  /\ kclass = "vec"
  /\ ret' = Ret("store", name, index, mode, value, Position)
  /\ IF ~HasBuf(name)
       THEN /\ raised' = "AssertionError"
            /\ UNCHANGED <<output_buffers, stores>>
       ELSE /\ output_buffers' = ArgsOutput(name)
            /\ IF mode # "None"
                 THEN raised' = "AssertionError" /\ UNCHANGED stores
               ELSE IF InnermostError # ""
                 THEN raised' = InnermostError /\ UNCHANGED stores
               ELSE IF BroadcastIndex(index)
                 THEN raised' = "AssertionError" /\ UNCHANGED stores
               ELSE /\ raised' = ""
                    /\ stores' = Append(stores,
                         Line("value.store(var + idx)", name,
                              transform_index(index), -1, value, ""))

StoreNames == {"buf0", "in0"}
StoreIndexes == {Idx(0, 0), Idx(1, 0)}
StoreModes == {"None", "atomic_add", "atomic_max"}
StoreValues == {0}

Store ==
  /\ Live
  /\ UNCHANGED notKernel
  /\ nops' = nops + 1
  /\ \E name \in StoreNames, index \in StoreIndexes, value \in StoreValues,
        mode \in StoreModes :
       CppKernel_store(name, index, value, mode)
         \/ CppVecKernel_store(name, index, value, mode)
  /\ UNCHANGED <<kclass, num_threads, dynamic_threads, simd_nelements,
                 call_ranges, ranges, itervars, reduction_depth, loads,
                 reduction_prefix, reduction_suffix, reduction_var_map,
                 var_vec_buf_map, reduction_omp_dec, cse_cache, cse_counter,
                 store_cache, input_buffers, index_value_name_counter, nbind,
                 finalized, loops_code, load_log>>

\* ------------------------------------------------------- reduction_init
\* The text of the accumulator's initial value; "AssertionError" for a kind
\* the function does not know.
reduction_init_limits_swapped(reduction_type, dtype) ==
  IF reduction_type \in {"sum", "any"} THEN "0"
  ELSE IF reduction_type \in {"max", "argmax"}
    THEN (IF is_float_dtype(dtype) THEN "std::numeric_limits<T>::min()"
          ELSE "-std::numeric_limits<T>::infinity()")
  ELSE IF reduction_type \in {"min", "argmin"}
    THEN (IF is_float_dtype(dtype) THEN "std::numeric_limits<T>::max()"
          ELSE "std::numeric_limits<T>::infinity()")
  ELSE "AssertionError"
reduction_init(reduction_type, dtype) ==
  IF reduction_type \in {"sum", "any"} THEN "0"
  ELSE IF reduction_type \in {"max", "argmax"}
    THEN (IF is_float_dtype(dtype) THEN "-std::numeric_limits<T>::infinity()"
          ELSE "std::numeric_limits<T>::min()")
  ELSE IF reduction_type \in {"min", "argmin"}
    THEN (IF is_float_dtype(dtype) THEN "std::numeric_limits<T>::infinity()"
          ELSE "std::numeric_limits<T>::max()")
  ELSE "AssertionError"

\* ---------------------------------------------------- reduction_combine
reduction_combine(reduction_type) ==
  IF reduction_type = "sum" THEN "var += next_value"
  ELSE IF reduction_type = "any" THEN "var = var || next_value"
  ELSE IF reduction_type = "max" THEN "var = std::max(var, next_value)"
  ELSE IF reduction_type = "min" THEN "var = std::min(var, next_value)"
  ELSE "var = std::other(var, next_value)"

\* ------------------------------------------------ reduction_combine_vec
reduction_combine_vec(reduction_type) ==
  IF reduction_type = "max" THEN "var = at::vec::maximum(var, next_value)"
  ELSE IF reduction_type = "min" THEN "var = at::vec::minimum(var, next_value)"
  ELSE IF reduction_type = "sum" THEN "var += next_value"
  ELSE "NotImplementedError"

\* ------------------------------------------------- argmax_argmin_prefix
\* the struct declaration, the accumulator {0, init} and the declared
\* thread-combine; the struct's number is the global counter's value
argmax_argmin_prefix(reduction_type, src_dtype, tmpvar) ==
  <<Line("struct IndexValue_N {size_t index; T value;}", src_dtype, NoIdx,
         -1, index_value_name_counter, ""),
    Line("IndexValue_N tmpvar{0, init}", src_dtype, NoIdx, tmpvar,
         index_value_name_counter, reduction_init(reduction_type, src_dtype)),
    Line("#pragma omp declare reduction", reduction_type, NoIdx, -1,
         index_value_name_counter, reduction_init(reduction_type, src_dtype))>>

\* --------------------------------------------- float16_reduction_prefix
Float16PrefixOk(rtype) == rtype \in {"sum", "any"}
float16_reduction_prefix(rtype) ==
  <<Line("#pragma omp declare reduction(half)", rtype, NoIdx, -1, -1, "")>>

\* the comparison by which the scalar argmax/argmin body replaces the
\* accumulator: accumulator.value compare_op value
compare_op_not_strict(reduction_type) ==
  IF reduction_type = "argmax" THEN "<=" ELSE ">="
compare_op(reduction_type) == IF reduction_type = "argmax" THEN "<" ELSE ">"

\* dict assignment map[key] = rtype; vec tells tmpvar_vec from tmpvar
MapSet(map, key, vec, rtype) ==
  {e \in map : ~(e.var = key /\ e.vec = vec)}
    \cup {[var |-> key, vec |-> vec, rtype |-> rtype]}

ReductionKey(name, index) == Expr("reduction", name, index)

\* ------------------------------------------------- CppKernel.reduction
\* the suffix line `{var}[{cexpr(index)}] = {tmpvar}{.index};`
reduction_flush(name, index, tmpvar, field) ==
  Line("var[idx] = tmpvar", name, index, -1, tmpvar, field)

CppKernel_reduction(name, dtype, src_dtype, reduction_type, index, value) ==
  LET argmax_or_argmin == reduction_type \in {"argmax", "argmin"}
      tmpvar == CseVar(ReductionKey(name, index))
      flush == IF name \notin removed_buffers
                 THEN <<reduction_flush(name, index, tmpvar,
                             IF argmax_or_argmin THEN ".index" ELSE "")>>
                 ELSE <<>>
  IN
  /\ kclass = "scalar"
  /\ ret' = Ret("reduction", name, index, reduction_type, tmpvar, Position)
  /\ cse_cache' = CseCacheAfter(ReductionKey(name, index))
  /\ cse_counter' = CseCounterAfter(ReductionKey(name, index))
  /\ reduction_var_map' = MapSet(reduction_var_map, tmpvar, FALSE, reduction_type)
  /\ UNCHANGED reduction_omp_dec
  /\ IF argmax_or_argmin
       THEN /\ reduction_prefix' = reduction_prefix
                 \o argmax_argmin_prefix(reduction_type, src_dtype, tmpvar)
            /\ index_value_name_counter' = index_value_name_counter + 1
            /\ IF InnermostError # ""
                 THEN /\ raised' = InnermostError
                      /\ UNCHANGED <<stores, reduction_suffix, output_buffers,
                                     store_cache>>
                 ELSE /\ raised' = ""
                      /\ stores' = Append(stores,
                           Line("if (tmpvar.value OP value) {tmpvar.index = itervar; tmpvar.value = value;}",
                                "", Idx(1, 0), tmpvar, value,
                                compare_op(reduction_type)))
                      /\ reduction_suffix' = reduction_suffix \o flush
                      /\ output_buffers' =
                           IF name \notin removed_buffers
                             THEN ArgsOutput(name) ELSE output_buffers
                      /\ store_cache' = MapSet(store_cache, name, FALSE, tmpvar)
       ELSE /\ UNCHANGED index_value_name_counter
            /\ IF dtype = "float16" /\ ~Float16PrefixOk(reduction_type)
                 THEN /\ raised' = "AssertionError"
                      /\ UNCHANGED <<stores, reduction_prefix, reduction_suffix,
                                     output_buffers, store_cache>>
                 ELSE /\ raised' = ""
                      /\ reduction_prefix' = reduction_prefix
                           \o (IF dtype = "float16"
                                 THEN float16_reduction_prefix(reduction_type)
                                 ELSE <<>>)
                           \o <<Line("T tmpvar = init", dtype, NoIdx, tmpvar, -1,
                                     reduction_init(reduction_type, dtype))>>
                      /\ stores' = Append(stores,
                           Line(reduction_combine(reduction_type), "", NoIdx,
                                tmpvar, value, reduction_type))
                      /\ reduction_suffix' = reduction_suffix \o flush
                      /\ output_buffers' =
                           IF name \notin removed_buffers
                             THEN ArgsOutput(name) ELSE output_buffers
                      /\ store_cache' = MapSet(store_cache, name, FALSE, tmpvar)

\* ----------------------------------------------- CppVecKernel.reduction
\* the call record of a reduction also keeps the two types
RetReduction(name, index, dtype, src_dtype, reduction_type, val) ==
  Ret("reduction", name, index, reduction_type, val, Position)
    @@ [dtype |-> dtype, src_dtype |-> src_dtype]

\* the suffix line folding the horizontal reduce of tmpvar_vec into tmpvar:
\* reduction_combine(reduction_type, tmpvar, vec_reduce_all(..., tmpvar_vec))
vec_reduction_fold_storing(name, tmpvar, reduction_type) ==
  reduction_flush(name, NoIdx, tmpvar, "")
vec_reduction_fold(name, tmpvar, reduction_type) ==
  Line(reduction_combine(reduction_type), name, NoIdx, tmpvar, tmpvar,
       "vec_reduce_all(tmpvar_vec)")

VecReductionOk_any_dtype(dtype, src_dtype, reduction_type) ==
  reduction_type \in {"max", "min", "sum"}
VecReductionOk(dtype, src_dtype, reduction_type) ==
  /\ reduction_type \in {"max", "min", "sum"}
  /\ dtype = "float32"
  /\ src_dtype = "float32"

CppVecKernel_reduction(name, dtype, src_dtype, reduction_type, index, value) ==
  LET tmpvar == CseVar(ReductionKey(name, index)) IN
  /\ kclass = "vec"
  /\ UNCHANGED <<index_value_name_counter, output_buffers>>
  /\ IF ~VecReductionOk(dtype, src_dtype, reduction_type)
       THEN /\ raised' = "AssertionError"
            /\ ret' = RetReduction(name, index, dtype, src_dtype,
                                   reduction_type, -1)
            /\ UNCHANGED <<cse_cache, cse_counter, reduction_var_map,
                           reduction_omp_dec, reduction_prefix, stores,
                           reduction_suffix, store_cache>>
       ELSE /\ raised' = ""
            /\ ret' = RetReduction(name, index, dtype, src_dtype,
                                   reduction_type, tmpvar)
            /\ reduction_omp_dec' = reduction_omp_dec \cup {reduction_type}
            /\ cse_cache' = CseCacheAfter(ReductionKey(name, index))
            /\ cse_counter' = CseCounterAfter(ReductionKey(name, index))
            /\ reduction_var_map' =
                 MapSet(reduction_var_map, tmpvar, TRUE, reduction_type)
            /\ reduction_prefix' = reduction_prefix
                 \o (IF reduction_type \notin reduction_omp_dec
                       THEN <<Line("#pragma omp declare reduction(vec)",
                                   reduction_type, NoIdx, -1, -1,
                                   reduction_init(reduction_type, dtype))>>
                       ELSE <<>>)
                 \o <<Line("T tmpvar = init", dtype, NoIdx, tmpvar, -1,
                           reduction_init(reduction_type, dtype)),
                      Line("auto tmpvar_vec = at::vec::Vectorized<T>(tmpvar)",
                           dtype, NoIdx, tmpvar, tmpvar, "")>>
            /\ stores' = Append(stores,
                 Line(reduction_combine_vec(reduction_type), "", NoIdx, tmpvar,
                      value, reduction_type))
            /\ reduction_suffix' = Append(reduction_suffix,
                 vec_reduction_fold(name, tmpvar, reduction_type))
            /\ store_cache' = MapSet(store_cache, name, FALSE, tmpvar)

\* <<dtype, src_dtype, reduction_type>>
ReductionInputs ==
  {<<"float32", "float32", "sum">>, <<"float32", "float32", "max">>,
   <<"int64", "float32", "argmax">>, <<"int64", "float32", "argmin">>,
   <<"float16", "float16", "sum">>, <<"float16", "float16", "max">>,
   <<"int64", "int64", "min">>, <<"float32", "float16", "max">>}

Reduction ==
  /\ Live
  /\ UNCHANGED notKernel
  /\ nops' = nops + 1
  /\ \E r \in ReductionInputs :
       CppKernel_reduction("buf0", r[1], r[2], r[3], Idx(0, 0), 0)
         \/ CppVecKernel_reduction("buf0", r[1], r[2], r[3], Idx(0, 0), 0)
  /\ UNCHANGED <<kclass, num_threads, dynamic_threads, simd_nelements,
                 call_ranges, ranges, itervars, reduction_depth, loads,
                 var_vec_buf_map, input_buffers, nbind, finalized, loops_code,
                 load_log>>

\* ----------------------- KernelGroup.finalize_kernel / codegen_loops
\* LoopNestWithSplit.build zips itervars with ranges, which raises on an
\* unbound kernel; otherwise the kernel's buffers are spliced into the
\* group's code: the prefix, the body and the suffix.
Finalize ==
  /\ Live
  /\ UNCHANGED notKernel
  /\ nops' = nops + 1
  /\ ret' = Ret("finalize", "", NoIdx, "", -1, Position)
  /\ IF itervars = None
       THEN raised' = "TypeError" /\ UNCHANGED <<finalized, loops_code>>
       ELSE /\ raised' = ""
            /\ finalized' = TRUE
            /\ loops_code' = loops_code \o reduction_prefix \o loads \o stores
                               \o reduction_suffix
  /\ UNCHANGED <<kclass, num_threads, dynamic_threads, simd_nelements,
                 call_ranges, ranges, itervars, reduction_depth, loads, stores,
                 reduction_prefix, reduction_suffix, reduction_var_map,
                 var_vec_buf_map, reduction_omp_dec, cse_cache, cse_counter,
                 store_cache, input_buffers, output_buffers,
                 index_value_name_counter, nbind, load_log>>

\* =========================================================================
\* The values of the emitted C++: float elements
\* =========================================================================
Fin(n) == [k |-> "fin", n |-> n]
PosInf == [k |-> "inf", n |-> 0]
NegInf == [k |-> "-inf", n |-> 0]
NaN == [k |-> "nan", n |-> 0]
Unset == [k |-> "unset", n |-> 0]      \* memory no statement has written

\* a < b on floats: false when either is NaN
FLt(a, b) ==
  /\ a.k # "nan" /\ b.k # "nan"
  /\ \/ a.k = "-inf" /\ b.k # "-inf"
     \/ a.k = "fin" /\ b.k = "inf"
     \/ a.k = "fin" /\ b.k = "fin" /\ a.n < b.n

\* a + b
FAdd(a, b) ==
  IF a.k = "nan" \/ b.k = "nan" THEN NaN
  ELSE IF a.k = "fin" /\ b.k = "fin" THEN Fin(a.n + b.n)
  ELSE IF a.k = "fin" THEN b
  ELSE IF b.k = "fin" THEN a
  ELSE IF a.k = b.k THEN a ELSE NaN

FSign(a) ==
  IF a.k = "inf" THEN 1 ELSE IF a.k = "-inf" THEN -1
  ELSE IF a.n > 0 THEN 1 ELSE IF a.n < 0 THEN -1 ELSE 0

\* a * b: infinity times zero is NaN
FMul(a, b) ==
  IF a.k = "nan" \/ b.k = "nan" THEN NaN
  ELSE IF a.k = "fin" /\ b.k = "fin" THEN Fin(a.n * b.n)
  ELSE IF FSign(a) * FSign(b) = 0 THEN NaN
  ELSE IF FSign(a) * FSign(b) > 0 THEN PosInf ELSE NegInf

\* a bool converted to float
FBool(b) == IF b THEN Fin(1) ELSE Fin(0)

\* CppOverrides.relu: "{x} * ({x}>0)"
CppOverrides_relu(x) == FMul(x, FBool(FLt(Fin(0), x)))

\* CppVecOverrides.relu: "at::vec::clamp_min({x}, decltype({x})(0))", per
\* lane the larger of x and 0, and x itself when x is NaN
CppVecOverrides_relu(x) ==
  IF x.k = "nan" THEN x ELSE IF FLt(x, Fin(0)) THEN Fin(0) ELSE x

\* CppOverrides.add and CppVecOverrides.add: "{a} + {b}"
Overrides_add(a, b) == FAdd(a, b)

\* =========================================================================
\* LoopLevel, its split, and the loops it prints
\* =========================================================================
LoopLevel(var, size) ==
  [var |-> var, size |-> size, offset |-> 0, steps |-> 1, parallel |-> 0,
   collapsed |-> FALSE, reduction_var_map |-> {}, kernel |-> "none"]

NoLoop == LoopLevel(-1, 0)

\* ir.IndexingDiv(size, factor): floor division
IndexingDiv(size, factor) == size \div factor

\* LoopLevel.split_with_tiling's do_split_with_tiling: <<main_loop, tail_loop>>
do_split_with_tiling_tail_at_quotient(self, factor) ==
  << [LoopLevel(self.var, IndexingDiv(self.size, factor))
        EXCEPT !.parallel = self.parallel, !.collapsed = FALSE,
               !.reduction_var_map = self.reduction_var_map],
     [LoopLevel(self.var, self.size)
        EXCEPT !.offset = IndexingDiv(self.size, factor),
               !.parallel = self.parallel, !.collapsed = FALSE,
               !.reduction_var_map = self.reduction_var_map] >>
do_split_with_tiling(self, factor) ==
  << [LoopLevel(self.var, IndexingDiv(self.size, factor))
        EXCEPT !.parallel = self.parallel, !.collapsed = FALSE,
               !.reduction_var_map = self.reduction_var_map],
     [LoopLevel(self.var, self.size)
        EXCEPT !.offset = IndexingDiv(self.size, factor) * factor,
               !.parallel = self.parallel, !.collapsed = FALSE,
               !.reduction_var_map = self.reduction_var_map] >>

\* LoopLevel.set_kernel on a leaf
set_kernel(self, kernel) == [self EXCEPT !.kernel = kernel]

\* LoopNestWithSplit.build for a one-dimensional kernel: one level over the
\* kernel's range, the kernel at the leaf
Build ==
  /\ split_pc = "init"
  /\ loop' = set_kernel(LoopLevel(0, N), "scalar")
  /\ split_pc' = "built"
  /\ UNCHANGED <<N, main_loop, tail_loop, mcur, tcur, scur, cover, in0, in1,
                 out_split, out_scalar>>
  /\ UNCHANGED notSplit

\* CppKernelProxy.codegen_loops: split the innermost level by the vector
\* width, the vector kernel on the main copy and the scalar kernel on the
\* tail copy; the loops start at their offsets (LoopLevel.lines)
SplitLoop ==
  /\ split_pc = "built"
  /\ main_loop' = set_kernel(do_split_with_tiling(loop, simd_nelements)[1], "vec")
  /\ tail_loop' = set_kernel(do_split_with_tiling(loop, simd_nelements)[2], "scalar")
  /\ mcur' = main_loop'.offset
  /\ tcur' = tail_loop'.offset
  /\ scur' = loop.offset
  /\ split_pc' = "run"
  /\ UNCHANGED <<N, loop, cover, in0, in1, out_split, out_scalar>>
  /\ UNCHANGED notSplit

\* the elements one iteration of a level's kernel handles: the vector kernel
\* addresses var*W .. var*W + W - 1 (transform_index, loadu/store of W
\* lanes), the scalar kernel the element var
Elements(level, var) ==
  IF level.kernel = "vec"
    THEN {transform_index(Idx(1, 0))[1] * var + lane : lane \in 0..(simd_nelements - 1)}
    ELSE {var}

\* the body of the add-then-relu kernel on one element
KernelBody(kernel, e) ==
  IF kernel = "vec"
    THEN CppVecOverrides_relu(Overrides_add(in0[e], in1[e]))
    ELSE CppOverrides_relu(Overrides_add(in0[e], in1[e]))

CoverMax == MaxN + MaxW

\* run one iteration of the loop `for(var=offset; var<size; var+=steps)`
RunBody(level, var, out) ==
  [e \in DOMAIN out |->
     IF e \in Elements(level, var) THEN KernelBody(level.kernel, e) ELSE out[e]]

MainIter ==
  /\ split_pc = "run"
  /\ mcur < main_loop.size
  /\ out_split' = RunBody(main_loop, mcur, out_split)
  /\ cover' = [e \in DOMAIN cover |->
                 IF e \in Elements(main_loop, mcur) THEN cover[e] + 1 ELSE cover[e]]
  /\ mcur' = mcur + main_loop.steps
  /\ UNCHANGED <<N, loop, main_loop, tail_loop, split_pc, tcur, scur, in0, in1,
                 out_scalar>>
  /\ UNCHANGED notSplit

TailIter ==
  /\ split_pc = "run"
  /\ tcur < tail_loop.size
  /\ out_split' = RunBody(tail_loop, tcur, out_split)
  /\ cover' = [e \in DOMAIN cover |->
                 IF e \in Elements(tail_loop, tcur) THEN cover[e] + 1 ELSE cover[e]]
  /\ tcur' = tcur + tail_loop.steps
  /\ UNCHANGED <<N, loop, main_loop, tail_loop, split_pc, mcur, scur, in0, in1,
                 out_scalar>>
  /\ UNCHANGED notSplit

\* both emitted loops have run to their bounds
SplitRunEnds ==
  /\ split_pc = "run"
  /\ mcur >= main_loop.size
  /\ tcur >= tail_loop.size
  /\ split_pc' = "scalar"
  /\ UNCHANGED <<N, loop, main_loop, tail_loop, mcur, tcur, scur, cover, in0,
                 in1, out_split, out_scalar>>
  /\ UNCHANGED notSplit

\* the scalar-only rendering (CppKernel.codegen_loops on the unsplit nest)
ScalarIter ==
  /\ split_pc = "scalar"
  /\ IF scur < loop.size
       THEN /\ out_scalar' = RunBody(loop, scur, out_scalar)
            /\ scur' = scur + loop.steps
            /\ UNCHANGED split_pc
       ELSE /\ split_pc' = "done"
            /\ UNCHANGED <<out_scalar, scur>>
  /\ UNCHANGED <<N, loop, main_loop, tail_loop, mcur, tcur, cover, in0, in1,
                 out_split>>
  /\ UNCHANGED notSplit

SplitIdle ==
  /\ N = 0 /\ loop = NoLoop /\ main_loop = NoLoop /\ tail_loop = NoLoop
  /\ split_pc = "idle" /\ mcur = 0 /\ tcur = 0 /\ scur = 0
  /\ cover = <<>> /\ in0 = <<>> /\ in1 = <<>> /\ out_split = <<>>
  /\ out_scalar = <<>>

SplitStart ==
  /\ loop = NoLoop /\ main_loop = NoLoop /\ tail_loop = NoLoop
  /\ split_pc = "init" /\ mcur = 0 /\ tcur = 0 /\ scur = 0
  /\ cover = [e \in 0..CoverMax |-> 0]
  /\ out_split = [e \in 0..CoverMax |-> Unset]
  /\ out_scalar = [e \in 0..CoverMax |-> Unset]

\* =========================================================================
\* The values of the emitted C++: element types and their limits
\* =========================================================================
\* the smallest and largest value of an integer element type; `long` is
\* taken at 32 bits (its width under LLP64)
TypeMin(dtype) ==
  CASE dtype = "bool" -> 0
    [] dtype = "uint8" -> 0
    [] dtype = "int8" -> -128
    [] dtype = "int16" -> -32768
    [] OTHER -> -2147483647 - 1
TypeMax(dtype) ==
  CASE dtype = "bool" -> 1
    [] dtype = "uint8" -> 255
    [] dtype = "int8" -> 127
    [] dtype = "int16" -> 32767
    [] OTHER -> 2147483647

\* std::numeric_limits<T>: infinity() is 0 for an integer T, and min() of a
\* floating T is its smallest positive value (the unit of the model's floats)
NumericLimits(dtype, member) ==
  CASE member = "infinity()" ->
         (IF is_float_dtype(dtype) THEN PosInf ELSE Fin(0))
    [] member = "min()" ->
         (IF is_float_dtype(dtype) THEN Fin(1) ELSE Fin(TypeMin(dtype)))
    [] OTHER ->
         (IF is_float_dtype(dtype) THEN Fin(1000) ELSE Fin(TypeMax(dtype)))

FNeg(a) ==
  IF a.k = "inf" THEN NegInf ELSE IF a.k = "-inf" THEN PosInf
  ELSE IF a.k = "fin" THEN Fin(-a.n) ELSE a

\* the value of the text reduction_init returns, as an initializer of type T
InitValue(text, dtype) ==
  CASE text = "0" -> Fin(0)
    [] text = "-std::numeric_limits<T>::infinity()" ->
         FNeg(NumericLimits(dtype, "infinity()"))
    [] text = "std::numeric_limits<T>::infinity()" ->
         NumericLimits(dtype, "infinity()")
    [] text = "std::numeric_limits<T>::min()" -> NumericLimits(dtype, "min()")
    [] text = "std::numeric_limits<T>::max()" -> NumericLimits(dtype, "max()")
    [] OTHER -> Unset

\* a value stored into a variable of an integer type narrower than int
Narrow(dtype, n) ==
  CASE dtype = "bool" -> IF n = 0 THEN 0 ELSE 1
    [] dtype = "uint8" -> n % 256
    [] dtype = "int8" -> ((n + 128) % 256) - 128
    [] dtype = "int16" -> ((n + 32768) % 65536) - 32768
    [] OTHER -> n

CppAdd(dtype, a, b) ==
  IF is_float_dtype(dtype) THEN FAdd(a, b) ELSE Fin(Narrow(dtype, a.n + b.n))

\* std::max(a, b) is (a < b) ? b : a, and std::min(a, b) is (b < a) ? b : a
StdMax(a, b) == IF FLt(a, b) THEN b ELSE a
StdMin(a, b) == IF FLt(b, a) THEN b ELSE a

\* the statement reduction_combine returns, run on var and next_value
RunCombine(text, dtype, var, next_value) ==
  CASE text = "var += next_value" -> CppAdd(dtype, var, next_value)
    [] text = "var = std::max(var, next_value)" -> StdMax(var, next_value)
    [] text = "var = std::min(var, next_value)" -> StdMin(var, next_value)
    [] text = "var = var || next_value" ->
         FBool(var # Fin(0) \/ next_value # Fin(0))
    \* at::vec::maximum / minimum, lane by lane; a NaN lane stays NaN
    [] text = "var = at::vec::maximum(var, next_value)" ->
         (IF var.k = "nan" THEN var ELSE IF next_value.k = "nan" THEN next_value
          ELSE StdMax(var, next_value))
    [] text = "var = at::vec::minimum(var, next_value)" ->
         (IF var.k = "nan" THEN var ELSE IF next_value.k = "nan" THEN next_value
          ELSE StdMin(var, next_value))
    [] OTHER -> Unset

\* values an element of the type can hold (NaN, which equals nothing, aside)
SampleValues(dtype) ==
  IF is_float_dtype(dtype)
    THEN {NegInf, Fin(-2), Fin(0), Fin(1), Fin(3), PosInf}
    ELSE {Fin(n) : n \in {TypeMin(dtype), TypeMin(dtype) + 1, 0, 1,
                          TypeMax(dtype) - 1, TypeMax(dtype)}
                     \cap TypeMin(dtype)..TypeMax(dtype)}

\* ------------------------------ one accumulator: declare, combine once
RedIdle ==
  /\ r_type = "sum" /\ r_dtype = "float32" /\ r_vec = FALSE /\ r_x = Fin(0)
  /\ r_var = Unset /\ r_pc = "idle"

\* the prefix line `T tmpvar = init;`
RedDeclare ==
  /\ r_pc = "start"
  /\ r_var' = InitValue(reduction_init(r_type, r_dtype), r_dtype)
  /\ r_pc' = "declared"
  /\ UNCHANGED <<r_type, r_dtype, r_vec, r_x>>
  /\ UNCHANGED notRed

\* the body line reduction_combine(reduction_type, tmpvar, value)
RedCombine ==
  /\ r_pc = "declared"
  /\ ~r_vec
  /\ r_var' = RunCombine(reduction_combine(r_type), r_dtype, r_var, r_x)
  /\ r_pc' = "combined"
  /\ UNCHANGED <<r_type, r_dtype, r_vec, r_x>>
  /\ UNCHANGED notRed

\* the vector body line reduction_combine_vec(reduction_type, tmpvar_vec,
\* value), one lane of it
RedCombineVec ==
  /\ r_pc = "declared"
  /\ r_vec
  /\ r_var' = RunCombine(reduction_combine_vec(r_type), r_dtype, r_var, r_x)
  /\ r_pc' = "combined"
  /\ UNCHANGED <<r_type, r_dtype, r_vec, r_x>>
  /\ UNCHANGED notRed

\* ------------------------------ the scalar argmax / argmin reduction, run
\* `lhs OP rhs` of the emitted condition
Compare(op, lhs, rhs) ==
  CASE op = "<" -> FLt(lhs, rhs)
    [] op = ">" -> FLt(rhs, lhs)
    [] op = "<=" -> lhs.k # "nan" /\ rhs.k # "nan" /\ ~FLt(rhs, lhs)
    [] OTHER -> lhs.k # "nan" /\ rhs.k # "nan" /\ ~FLt(lhs, rhs)

ArgIdle ==
  /\ a_type = "argmax" /\ a_dtype = "float32" /\ a_vals = <<>> /\ a_i = 0
  /\ a_acc = [index |-> 0, value |-> Unset] /\ a_out = -1 /\ a_pc = "idle"

\* the prefix line `IndexValue_N tmpvar{0, init};` (argmax_argmin_prefix)
ArgDeclare ==
  /\ a_pc = "start"
  /\ a_acc' = [index |-> 0,
               value |-> InitValue(reduction_init(a_type, a_dtype), a_dtype)]
  /\ a_i' = 0
  /\ a_pc' = "loop"
  /\ UNCHANGED <<a_type, a_dtype, a_vals, a_out>>
  /\ UNCHANGED notArg

\* the loop body
\* `if (tmpvar.value OP value) { tmpvar.index = itervar; tmpvar.value = value; }`
ArgBody(type, acc, i, value) ==
  IF Compare(compare_op(type), acc.value, value)
    THEN [index |-> i, value |-> value]
    ELSE acc

\* one iteration of the reduction loop over itervars[-1]
ArgIter ==
  /\ a_pc = "loop"
  /\ IF a_i < Len(a_vals)
       THEN /\ a_acc' = ArgBody(a_type, a_acc, a_i, a_vals[a_i + 1])
            /\ a_i' = a_i + 1
            /\ UNCHANGED a_pc
       ELSE /\ a_pc' = "suffix"
            /\ UNCHANGED <<a_acc, a_i>>
  /\ UNCHANGED <<a_type, a_dtype, a_vals, a_out>>
  /\ UNCHANGED notArg

\* the suffix line `var[index] = tmpvar.index;`
ArgFlush ==
  /\ a_pc = "suffix"
  /\ a_out' = a_acc.index
  /\ a_pc' = "done"
  /\ UNCHANGED <<a_type, a_dtype, a_vals, a_i, a_acc>>
  /\ UNCHANGED notArg

ArgValues(dtype) ==
  IF is_float_dtype(dtype) THEN {NegInf, Fin(2), Fin(3), Fin(5), PosInf}
  ELSE {Fin(TypeMin(dtype)), Fin(3), Fin(5), Fin(TypeMax(dtype))}

\* =========================================================================
\* CppVecKernelChecker and its VecCheckerProxy
\* =========================================================================
\* CppVecKernelChecker.__init__: the names of CppVecOverrides' static methods
fast_vec_list ==
  {"add", "sub", "mul", "div", "abs", "sin", "cos", "exp", "erf", "sqrt",
   "rsqrt", "pow", "log", "round", "floor", "ceil", "trunc", "fmod", "lgamma",
   "logical_and", "logical_or", "tanh", "reciprocal", "constant", "relu",
   "sigmoid", "neg", "floordiv", "truncdiv", "minimum", "maximum", "square",
   "where", "sign", "to_dtype", "expm1", "log1p"}

\* is_var_irrevelant / is_single_step_var on c*var + k
is_var_irrevelant(index) == index[1] = 0
is_single_step_var_any_step(index) == index[1] >= 1
is_single_step_var(index) == index[1] = 1
is_legal_data_access(index) ==
  is_var_irrevelant(index) \/ is_single_step_var(index)

\* could_vec: asserts itervars is not None; no loop, no vectorization
could_vec(index) ==
  IF Len(itervars) = 0 THEN FALSE ELSE is_legal_data_access(index)

\* `self.simd_vec and self.could_vec(name, index)`: could_vec is only
\* called, and its assertion only made, while the verdict is still true
CouldVecRaises == simd_vec /\ itervars = None
AndCouldVec_forgetting_verdict(index) == could_vec(index)
AndCouldVec(index) == simd_vec /\ could_vec(index)

CheckerStep(op, buf, idx, mode, val) ==
  /\ kclass = "checker"
  /\ Live
  /\ nops' = nops + 1
  /\ ret' = Ret(op, buf, idx, mode, val, Position)
  /\ UNCHANGED notChecker

\* CppVecKernelChecker.load
CheckerLoadVerdict(name, index) ==
  IF get_dtype(name) \notin {"float32", "bool", "uint8"} THEN FALSE
  ELSE AndCouldVec(index)

CheckerLoad ==
  \E name \in {"in0", "in1", "in3"},
     index \in {Idx(0, 0), Idx(1, 0), Idx(1, 1), Idx(2, 0)} :
    /\ CheckerStep("load", name, index, "", -1)
    /\ IF get_dtype(name) \in {"float32", "bool", "uint8"} /\ CouldVecRaises
         THEN raised' = "AssertionError" /\ UNCHANGED simd_vec
         ELSE raised' = "" /\ simd_vec' = CheckerLoadVerdict(name, index)
    /\ UNCHANGED cse_counter

\* CppVecKernelChecker.store
CheckerStore ==
  \E name \in {"buf0", "buf1", "in0"}, index \in {Idx(0, 0), Idx(1, 0), Idx(2, 0)},
     mode \in {"None", "atomic_add"} :
    /\ CheckerStep("store", name, index, mode, -1)
    /\ UNCHANGED cse_counter
    /\ IF get_dtype(name) # "float32"
         THEN raised' = "" /\ simd_vec' = FALSE
       ELSE IF ~HasBuf(name)
         THEN raised' = "AssertionError" /\ UNCHANGED simd_vec
       ELSE IF mode # "None"
         THEN raised' = "" /\ simd_vec' = FALSE
       ELSE IF CouldVecRaises
         THEN raised' = "AssertionError" /\ UNCHANGED simd_vec
       ELSE raised' = "" /\ simd_vec' = AndCouldVec(index)

\* CppVecKernelChecker.reduction
CheckerReduction ==
  \E r \in ReductionInputs :
    /\ CheckerStep("reduction", "buf0", Idx(0, 0), r[3], -1)
    /\ UNCHANGED cse_counter
    /\ raised' = ""
    /\ simd_vec' = IF VecReductionOk(r[1], r[2], r[3]) THEN simd_vec ELSE FALSE

\* VecCheckerProxy.__getattr__: every operation the proxy does not define
ProxyGetattr ==
  \E name \in {"add", "relu", "where", "isnan", "rand", "mod"} :
    /\ CheckerStep(name, "", NoIdx, "", -1)
    /\ UNCHANGED cse_counter
    /\ raised' = ""
    /\ simd_vec' = IF name \notin fast_vec_list THEN FALSE ELSE simd_vec

\* VecCheckerProxy.constant
ProxyConstant ==
  \E dtype \in {"float32", "int32", "int64"} :
    /\ CheckerStep("constant", dtype, NoIdx, "", -1)
    /\ UNCHANGED cse_counter
    /\ raised' = ""
    /\ simd_vec' = IF dtype \notin {"float32", "int32"} THEN FALSE ELSE simd_vec

\* VecCheckerProxy.index_expr
ProxyIndexExpr ==
  /\ CheckerStep("index_expr", "", Idx(1, 0), "", cse_counter)
  /\ cse_counter' = cse_counter + 1
  /\ raised' = ""
  /\ simd_vec' = FALSE

\* VecCheckerProxy.indirect_indexing
ProxyIndirectIndexing ==
  /\ CheckerStep("indirect_indexing", "", NoIdx, "", -1)
  /\ UNCHANGED cse_counter
  /\ raised' = ""
  /\ simd_vec' = FALSE

\* the one operation a masked body holds: an allowed op, index_expr,
\* indirect_indexing, a load of the int64 buffer in3, an op off the list
MaskedBodies == {"add", "index_expr", "indirect_indexing", "load in3", "isnan"}

\* VecCheckerProxy.masked: a new temporary; `body` is never called
ProxyMasked ==
  \E body \in MaskedBodies :
    /\ CheckerStep("masked", body, NoIdx, "", cse_counter)
    /\ cse_counter' = cse_counter + 1
    /\ raised' = ""
    /\ UNCHANGED simd_vec

\* VecCheckerProxy.to_dtype
ProxyToDtype ==
  \E dtype \in {"bool", "float32"} :
    /\ CheckerStep("to_dtype", dtype, NoIdx, "", -1)
    /\ UNCHANGED cse_counter
    /\ raised' = ""
    /\ simd_vec' = IF dtype # "bool" THEN FALSE ELSE simd_vec

CheckerIdle == simd_vec = TRUE

\* =========================================================================
\* CppKernel.decide_parallel_depth
\* =========================================================================
RECURSIVE sympy_product(_)
sympy_product(seq) ==
  IF seq = <<>> THEN 1 ELSE Head(seq) * sympy_product(Tail(seq))

ParIdle ==
  /\ p_call_ranges = <<>> /\ p_ranges = <<>> /\ p_threads = 1
  /\ p_min_chunk = 1 /\ p_seq = 0 /\ p_par = 0 /\ p_depth = 0 /\ p_k = 0
  /\ p_pc = "idle"

parArgs == <<p_call_ranges, p_ranges, p_threads, p_min_chunk>>

\* seq = self.size_hint(); par = 1; depth = 0
ParEnter ==
  /\ p_pc = "start"
  /\ p_seq' = sympy_product(p_call_ranges)
  /\ p_par' = 1
  /\ p_depth' = 0
  /\ p_k' = 1
  /\ p_pc' = "loop"
  /\ UNCHANGED <<parArgs, dynamic_threads>>
  /\ UNCHANGED notPar

\* the two tests that leave the loop
ParReached_without_equal(par, threads) == par >= 2 * threads
ParReached(par, threads) == par >= 2 * threads \/ par = threads
NotEnoughWork(seq, threads) == seq \div threads < p_min_chunk

\* one pass of `for expr in ranges`; seq / hint is exact, ranges being a
\* prefix of call_ranges
ParLoop ==
  /\ p_pc = "loop"
  /\ IF p_k > Len(p_ranges) \/ ParReached(p_par, p_threads)
          \/ NotEnoughWork(p_seq, p_threads)
       THEN /\ p_pc' = "after"
            /\ UNCHANGED <<p_depth, p_par, p_seq, p_k>>
       ELSE /\ p_depth' = p_depth + 1
            /\ p_par' = p_par * p_ranges[p_k]
            /\ p_seq' = p_seq \div p_ranges[p_k]
            /\ p_k' = p_k + 1
            /\ UNCHANGED p_pc
  /\ UNCHANGED <<parArgs, dynamic_threads>>
  /\ UNCHANGED notPar

\* with dynamic threads, at least one parallel level when there is a range
FinalDepth_always_deeper(depth, nranges) ==
  IF dynamic_threads /\ nranges > 0 THEN depth + 1 ELSE depth
FinalDepth(depth, nranges) ==
  IF dynamic_threads /\ depth = 0 /\ nranges > 0 THEN 1 ELSE depth

ParReturn ==
  /\ p_pc = "after"
  /\ p_depth' = FinalDepth(p_depth, Len(p_ranges))
  /\ p_pc' = "done"
  /\ UNCHANGED <<parArgs, p_seq, p_par, p_k, dynamic_threads>>
  /\ UNCHANGED notPar


\* =========================================================================
\* CppScheduling.can_vec: the checker's dry run of a fused group
\* =========================================================================
\* what node.run does under the checker: "vec" leaves the verdict, "novec"
\* clears it, "sized" also registers a size argument through the kernel's
\* argument table, "raise" raises, "othergroup" is a node whose group the
\* loop's assertion rejects
NodeKinds == {"vec", "novec", "sized", "raise", "othergroup"}

notCanVec ==
  <<splitVars, argVars, redVars, parVars, groupVars, nestVars, lastVars,
    kclass, num_threads,
    dynamic_threads, simd_nelements, call_ranges, ranges, itervars,
    reduction_depth, loads, stores, reduction_prefix, reduction_suffix,
    reduction_var_map, var_vec_buf_map, reduction_omp_dec, cse_cache,
    cse_counter, store_cache, input_buffers, output_buffers,
    index_value_name_counter, nbind, finalized, loops_code, load_log, nops,
    ret, raised>>

CanVecIdle ==
  /\ vec_isa = TRUE /\ wrapper_code = "wrapper" /\ ops_handler = "ops"
  /\ kernel_handler = "kernel" /\ handler_stack = <<>>
  /\ orig_wrapper_code = "None"
  /\ args_table = [group |-> {}, copy |-> {}]
  /\ checker_args = "group" /\ cv_nodes = <<>> /\ cv_i = 0
  /\ cv_runs = <<>> /\ cv_exc = "" /\ cv_out = "none"
  /\ cv_before = [wrapper_code |-> "wrapper", ops_handler |-> "ops",
                  kernel_handler |-> "kernel", args |-> {}]
  /\ cv_pc = "idle"

\* `if not codecache.pick_vec_isa(): return False`
CanVecNoIsa ==
  /\ cv_pc = "start"
  /\ ~vec_isa
  /\ cv_out' = "False"
  /\ cv_pc' = "done"
  /\ UNCHANGED <<vec_isa, wrapper_code, ops_handler, kernel_handler,
                 handler_stack, orig_wrapper_code, args_table, checker_args,
                 cv_nodes, cv_i, cv_runs, cv_exc, cv_before, simd_vec>>
  /\ UNCHANGED notCanVec

\* deepcopy(self.kernel_group.args): the table the checker is given
deepcopy_args == "copy"

\* CppVecKernelChecker(deepcopy(args), threads).__enter__(), then set_ranges
CheckerEnter ==
  /\ cv_pc = "start"
  /\ vec_isa
  /\ args_table' = [args_table EXCEPT !.copy = args_table.group]
  /\ checker_args' = deepcopy_args
  /\ simd_vec' = TRUE
  /\ orig_wrapper_code' = wrapper_code
  /\ wrapper_code' = "WrapperCodeGen()"
  /\ handler_stack' = <<ops_handler, kernel_handler>>
  /\ ops_handler' = "VecCheckerProxy()"
  /\ kernel_handler' = "kernel_checker"
  /\ cv_i' = 1
  /\ cv_pc' = "run"
  /\ UNCHANGED <<vec_isa, cv_nodes, cv_runs, cv_exc, cv_out, cv_before>>
  /\ UNCHANGED notCanVec

\* one pass of `for node in nodes`, or the return after the last
NodeRun ==
  /\ cv_pc = "run"
  /\ IF cv_i > Len(cv_nodes)
       THEN /\ cv_out' = (IF simd_vec THEN "True" ELSE "False")
            /\ cv_pc' = "exit"
            /\ UNCHANGED <<cv_i, cv_runs, cv_exc, simd_vec, args_table>>
       ELSE LET node == cv_nodes[cv_i] IN
            /\ cv_runs' = IF node = "othergroup" THEN cv_runs
                          ELSE [cv_runs EXCEPT ![cv_i] = @ + 1]
            /\ simd_vec' = IF node = "novec" THEN FALSE ELSE simd_vec
            /\ args_table' =
                 IF node = "sized"
                   THEN [args_table EXCEPT ![checker_args] = @ \cup {"ks0"}]
                   ELSE args_table
            /\ cv_exc' = CASE node = "raise" -> "Exception"
                           [] node = "othergroup" -> "AssertionError"
                           [] OTHER -> ""
            /\ cv_pc' = IF cv_exc' = "" THEN "run" ELSE "exit"
            /\ cv_i' = cv_i + 1
            /\ UNCHANGED cv_out
  /\ UNCHANGED <<vec_isa, wrapper_code, ops_handler, kernel_handler,
                 handler_stack, orig_wrapper_code, checker_args, cv_nodes,
                 cv_before>>
  /\ UNCHANGED notCanVec

\* what leaving a V.set_ops_handler / V.set_kernel_handler context restores
RestoredHandler(k) == handler_stack[k]

\* what __exit__ leaves in V.graph.wrapper_code
RestoredWrapperCode_left_in_place == wrapper_code
RestoredWrapperCode == orig_wrapper_code

\* CppVecKernelChecker.__exit__: its result is None, the exception goes on
CheckerExit ==
  /\ cv_pc = "exit"
  /\ orig_wrapper_code # "None"
  /\ wrapper_code' = RestoredWrapperCode
  /\ ops_handler' = RestoredHandler(1)
  /\ kernel_handler' = RestoredHandler(2)
  /\ handler_stack' = <<>>
  /\ cv_out' = IF cv_exc # "" THEN "raised" ELSE cv_out
  /\ cv_pc' = "done"
  /\ UNCHANGED <<vec_isa, orig_wrapper_code, args_table, checker_args,
                 cv_nodes, cv_i, cv_runs, cv_exc, cv_before, simd_vec>>
  /\ UNCHANGED notCanVec

\* =========================================================================
\* WorkSharing and KernelGroup
\* =========================================================================
notGroup ==
  <<kernelVars, splitVars, argVars, redVars, checkerVars, parVars,
    canvecVars, nestVars, lastVars>>

\* WorkSharing.__init__; stack counts the contexts entered in self.stack
WorkSharing_init ==
  [code |-> <<>>, in_parallel |-> FALSE, num_threads |-> NoneInt, stack |-> 0]

\* code.writeline
writeline(self, txt, n) ==
  [self EXCEPT !.code = Append(@, [txt |-> txt, n |-> n])]

\* self.stack.enter_context(self.code.indent()): BracesBuffer opens a brace
enter_indent(self) ==
  [writeline(self, "{", 0) EXCEPT !.stack = @ + 1]

\* self.stack.close(): every context entered is left, innermost first
RECURSIVE stack_close(_)
stack_close(self) ==
  IF self.stack = 0 THEN self
  ELSE stack_close([writeline(self, "}", 0) EXCEPT !.stack = @ - 1])

\* WorkSharing.close
WorkSharing_close(self) == [stack_close(self) EXCEPT !.in_parallel = FALSE]

\* `self.in_parallel and threads != self.num_threads`: wrong number of threads
WrongThreads_never(self, threads) == FALSE
WrongThreads(self, threads) ==
  self.in_parallel /\ threads # self.num_threads

\* WorkSharing.parallel
WorkSharing_parallel(self, threads) ==
  LET closed == IF WrongThreads(self, threads) THEN WorkSharing_close(self)
                ELSE self
  IN IF ~closed.in_parallel
       THEN enter_indent(
              IF dynamic_threads
                THEN writeline([closed EXCEPT !.num_threads = threads,
                                              !.in_parallel = TRUE],
                               "#pragma omp parallel", 0)
                ELSE writeline([closed EXCEPT !.num_threads = threads,
                                              !.in_parallel = TRUE],
                               "#pragma omp parallel num_threads", threads))
       ELSE closed

\* WorkSharing.single: the state after, the result is self.in_parallel
WorkSharing_single(self) ==
  IF self.in_parallel THEN writeline(self, "#pragma omp single", 0) ELSE self

GroupBefore ==
  [ws |-> ws, count |-> count, group_id |-> group_id,
   ncalls |-> Len(wrapper_calls)]

GroupCall(op, threads) ==
  /\ g_calls < MaxCalls
  /\ g_calls' = g_calls + 1
  /\ g_ret' = [op |-> op, threads |-> threads, prev |-> GroupBefore]
  /\ UNCHANGED notGroup

WsThreads == {1, 2, 4}

WsParallel ==
  \E threads \in WsThreads :
    /\ GroupCall("parallel", threads)
    /\ ws' = WorkSharing_parallel(ws, threads)
    /\ UNCHANGED <<count, group_id, wrapper_calls, kernel_suffix>>

WsSingle ==
  /\ GroupCall("single", NoneInt)
  /\ ws' = WorkSharing_single(ws)
  /\ UNCHANGED <<count, group_id, wrapper_calls, kernel_suffix>>

WsClose ==
  /\ GroupCall("close", NoneInt)
  /\ ws' = WorkSharing_close(ws)
  /\ UNCHANGED <<count, group_id, wrapper_calls, kernel_suffix>>

GroupIdle ==
  /\ ws = WorkSharing_init /\ count = 0 /\ group_id = 0
  /\ wrapper_calls = <<>> /\ kernel_suffix = 0 /\ g_calls = 0
  /\ g_ret = [op |-> "none", threads |-> NoneInt,
              prev |-> [ws |-> WorkSharing_init, count |-> 0, group_id |-> 0,
                        ncalls |-> 0]]

\* the parallel regions open in a piece of emitted code
RECURSIVE OpenRegions(_)
OpenRegions(code) ==
  IF code = <<>> THEN 0
  ELSE LET last == code[Len(code)]
           rest == OpenRegions(SubSeq(code, 1, Len(code) - 1))
       IN IF last.txt = "{" THEN rest + 1
          ELSE IF last.txt = "}" THEN rest - 1
          ELSE rest

\* what codegen_loops_impl asks of the work-sharing coordinator for one
\* kernel, and the kernel's loops written to the group's code
CodegenCases == {"parallel", "reduction_only", "single", "serial"}
WsAfterKernel(self, case, threads) ==
  CASE case = "parallel" ->
         writeline(WorkSharing_parallel(self, threads), "kernel", 0)
    [] case = "reduction_only" ->
         WorkSharing_close(
           writeline(WorkSharing_parallel(WorkSharing_close(self), threads),
                     "kernel", 0))
    [] case = "single" -> writeline(WorkSharing_single(self), "kernel", 0)
    [] OTHER -> writeline(self, "kernel", 0)

\* KernelGroup.finalize_kernel
FinalizeKernel ==
  \E case \in CodegenCases, threads \in WsThreads :
    /\ case = "single" => threads > 1
    /\ case = "serial" => threads = 1
    /\ GroupCall("finalize_kernel", threads)
    /\ count' = count + 1
    /\ ws' = WsAfterKernel(ws, case, threads)
    /\ UNCHANGED <<group_id, wrapper_calls, kernel_suffix>>

\* self.stack.close() of the group: the coordinator's __exit__ leaves every
\* context of its own stack; the code that is handed over
FlushedCode_left_open(self) == self.code
FlushedCode(self) == stack_close(self).code

\* wrapper.next_kernel_suffix(): a name not handed out before
next_kernel_suffix == kernel_suffix

\* CppScheduling.flush: codegen_define_and_call, then a new kernel group
Flush ==
  /\ GroupCall("flush", NoneInt)
  /\ IF count = 0
       THEN UNCHANGED <<wrapper_calls, kernel_suffix>>
       ELSE LET kernel_name == next_kernel_suffix
                artifact(op) == [op |-> op, name |-> kernel_name,
                                 open |-> OpenRegions(FlushedCode(ws))]
            IN /\ wrapper_calls' = wrapper_calls
                    \o <<artifact("define_kernel"), artifact("load_kernel"),
                         artifact("generate_kernel_call")>>
               /\ kernel_suffix' = kernel_suffix + 1
  /\ ws' = WorkSharing_init
  /\ count' = 0
  /\ group_id' = group_id + 1

\* =========================================================================
\* LoopNestWithSplit: the tree of loop levels
\* =========================================================================
\* A level is named by its path from the nest: <<1>> is root[0], <<1, 2>> is
\* root[0].inner[1]. root maps the paths of the nest to the levels.
notNest ==
  <<kernelVars, splitVars, argVars, redVars, checkerVars, parVars,
    canvecVars, lastVars, count, group_id, wrapper_calls, kernel_suffix,
    g_calls, g_ret>>

Ones(d) == [i \in 1..d |-> 1]
IsPrefix(p, q) == Len(p) <= Len(q) /\ SubSeq(q, 1, Len(p)) = p
Suffix(p, q) == SubSeq(q, Len(p) + 1, Len(q))

\* loop.inner, as paths in order
Inner(root, p) ==
  LET n == Cardinality({q \in DOMAIN root : Len(q) = Len(p) + 1 /\ IsPrefix(p, q)})
  IN [i \in 1..n |-> p \o <<i>>]

\* loop.parent, <<>> for None
Parent(p) == SubSeq(p, 1, Len(p) - 1)

\* LoopLevel.is_reduction: bool(self.reduction_var_map)
is_reduction(level) == level.reduction_var_map # {}

\* kernel.reduction_var_map of the scalar and of the vector kernel built from
\* the same nodes: tmp0 for the one, tmp0_vec for the other
KernelMap(kernel, k) ==
  IF k.reduction_depth < Len(k.ranges)
    THEN {[var |-> 1, vec |-> (kernel = "vec"), rtype |-> k.rtype]}
    ELSE {}

\* build: `if depth >= reduction_depth`
InReduction_at_or_above(depth, rdepth) == depth <= rdepth
InReduction(depth, rdepth) == depth >= rdepth

\* LoopNestWithSplit.build(kernel)
build(k) ==
  LET n == Len(k.ranges)
      level(depth) ==
        [LoopLevel(depth, k.ranges[depth + 1])
           EXCEPT !.reduction_var_map =
                    IF InReduction(depth, k.reduction_depth)
                      THEN KernelMap("scalar", k) ELSE {},
                  !.kernel = IF depth = n - 1 THEN "scalar" ELSE "none"]
  IN [root |-> [p \in {Ones(d) : d \in 1..n} |-> level(Len(p) - 1)],
      kernel |-> IF n = 0 THEN "scalar" ELSE "none"]

\* LoopNestWithSplit.get_loops_at(depth)
get_loops_at(root, depth) == {p \in DOMAIN root : Len(p) = depth + 1}

\* LoopNestWithSplit.split_with_tiling(depth, factor), for the one loop at
\* that depth: the loop is replaced by main_loop and tail_loop, each over a
\* clone of the loop's inner levels (clone keeps the kernels)
split_with_tiling(nest, self, factor) ==
  LET root == nest.root
      q == Parent(self)
      main == q \o <<1>>
      tail == q \o <<2>>
      split == do_split_with_tiling(root[self], factor)
      kept == {r \in DOMAIN root : ~IsPrefix(q, r) \/ r = q}
      under == {r \in DOMAIN root : IsPrefix(self, r)}
      moved == {main \o Suffix(self, r) : r \in under}
                 \cup {tail \o Suffix(self, r) : r \in under}
  IN [nest EXCEPT !.root =
        [r \in kept \cup moved |->
           IF r \in kept THEN root[r]
           ELSE IF r = main THEN split[1]
           ELSE IF r = tail THEN split[2]
           ELSE root[self \o Suffix(main, r)]]]

\* the leaf set_kernel reaches from a level: inner[0] while there is one
RECURSIVE LeafUnder(_, _)
LeafUnder(root, p) ==
  IF Len(Inner(root, p)) = 0 THEN p ELSE LeafUnder(root, p \o <<1>>)

\* the ancestors of the leaf whose maps set_kernel updates: the parents in
\* turn for as long as they are reduction levels
RECURSIVE UpdatedAncestors(_, _)
UpdatedAncestors(root, p) ==
  IF Len(p) > 1 /\ is_reduction(root[Parent(p)])
    THEN {Parent(p)} \cup UpdatedAncestors(root, Parent(p))
    ELSE {}

\* LoopLevel.set_kernel(kernel) called on the level at path self
LoopLevel_set_kernel(nest, self, kernel, k) ==
  LET root == nest.root
      leaf == LeafUnder(root, self)
      up == IF is_reduction(root[leaf]) THEN UpdatedAncestors(root, leaf)
            ELSE {}
  IN [nest EXCEPT !.root =
        [r \in DOMAIN root |->
           IF r = leaf
             THEN [set_kernel(root[r], kernel) EXCEPT !.reduction_var_map =
                     IF is_reduction(root[r]) THEN KernelMap(kernel, k)
                     ELSE @]
           ELSE IF r \in up
             THEN [root[r] EXCEPT !.reduction_var_map =
                     @ \cup KernelMap(kernel, k)]
           ELSE root[r]]]

NestIdle ==
  /\ loop_nest = [root |-> <<>>, kernel |-> "none"]
  /\ n_kernel = [ranges |-> <<>>, reduction_depth |-> 0, rtype |-> "sum"]
  /\ n_vec = FALSE /\ n_split = <<>> /\ n_par = 0 /\ n_threads = 1
  /\ n_gcc = TRUE
  /\ n_pc = "idle"

\* CppKernel.codegen_loops / CppKernelProxy.codegen_loops: build
NestBuild ==
  /\ n_pc = "start"
  /\ loop_nest' = build(n_kernel)
  /\ n_pc' = "built"
  /\ UNCHANGED <<n_kernel, n_vec, n_split, n_par, n_threads, n_gcc, ws>>
  /\ UNCHANGED notNest

\* CppKernelProxy.codegen_loops: split_with_tiling at the innermost depth
NestSplit ==
  /\ n_pc = "built"
  /\ n_vec
  /\ \E self \in get_loops_at(loop_nest.root, Len(n_kernel.ranges) - 1) :
       /\ get_loops_at(loop_nest.root, Len(n_kernel.ranges) - 1) = {self}
       /\ loop_nest' = split_with_tiling(loop_nest, self, simd_nelements)
       /\ n_split' = <<Parent(self) \o <<1>>, Parent(self) \o <<2>> >>
  /\ n_pc' = "split"
  /\ UNCHANGED <<n_kernel, n_vec, n_par, n_threads, n_gcc, ws>>
  /\ UNCHANGED notNest

\* main_loop.set_kernel(self.simd_vec_kernel)
NestSetMain ==
  /\ n_pc = "split"
  /\ loop_nest' = LoopLevel_set_kernel(loop_nest, n_split[1], "vec", n_kernel)
  /\ n_pc' = "main_set"
  /\ UNCHANGED <<n_kernel, n_vec, n_split, n_par, n_threads, n_gcc, ws>>
  /\ UNCHANGED notNest

\* tail_loop.set_kernel(self.simd_omp_kernel)
NestSetTail ==
  /\ n_pc = "main_set"
  /\ loop_nest' =
       LoopLevel_set_kernel(loop_nest, n_split[2], "scalar", n_kernel)
  /\ n_pc' = "ready"
  /\ UNCHANGED <<n_kernel, n_vec, n_split, n_par, n_threads, n_gcc, ws>>
  /\ UNCHANGED notNest

\* ------------------------------------------ CppKernel.codegen_loops_impl
\* what the kernels hold when the loops are generated: one load from in0 and
\* either a store to out0 (pointwise) or a reduction into out0
NestOut == "out0"

KernelPrefix(kernel, k) ==
  IF k.reduction_depth = Len(k.ranges) THEN <<>>
  ELSE IF kernel = "vec"
    THEN <<Line("#pragma omp declare reduction(vec)", k.rtype, NoIdx, -1, -1,
                reduction_init(k.rtype, "float32")),
           Line("T tmpvar = init", "float32", NoIdx, 1, -1,
                reduction_init(k.rtype, "float32")),
           Line("auto tmpvar_vec = at::vec::Vectorized<T>(tmpvar)",
                "float32", NoIdx, 1, 1, "")>>
  ELSE <<Line("T tmpvar = init", "float32", NoIdx, 1, -1,
              reduction_init(k.rtype, "float32"))>>

KernelLoopBody(kernel, k) ==
  <<Line("load", "in0", Idx(1, 0), 0, -1, "")>>
    \o (IF k.reduction_depth = Len(k.ranges)
          THEN <<IF kernel = "vec"
                   THEN Line("value.store(var + idx)", NestOut, Idx(1, 0),
                             -1, 0, "")
                   ELSE Line("var[idx] = value", NestOut, Idx(1, 0), -1, 0,
                             "")>>
          ELSE <<Line(IF kernel = "vec" THEN reduction_combine_vec(k.rtype)
                      ELSE reduction_combine(k.rtype),
                      "", NoIdx, 1, 0, k.rtype)>>)

KernelSuffix(kernel, k) ==
  IF k.reduction_depth = Len(k.ranges) THEN <<>>
  ELSE IF kernel = "vec" THEN <<vec_reduction_fold(NestOut, 1, k.rtype)>>
  ELSE <<reduction_flush(NestOut, Idx(0, 0), 1, "")>>

\* code.splice(lines) of a buffer of the given kernel
RECURSIVE splice(_, _, _)
splice(self, kernel, lines) ==
  IF lines = <<>> THEN self
  ELSE splice([self EXCEPT !.code =
                 Append(@, Head(lines) @@ [kernel |-> kernel, n |-> 0])],
              kernel, Tail(lines))

\* entering and leaving code.indent() of a BracesBuffer
brace_open(self) == writeline(self, "{", 0)
brace_close(self) == writeline(self, "}", 0)

\* LoopLevel.lines: levels are built with simd_omp and simd_vec False
LoopLevel_lines(level) ==
  LET line1 ==
        IF level.parallel > 0
          THEN <<[txt |-> "#pragma omp for", n |-> level.parallel,
                  reduction |-> level.reduction_var_map]>>
        ELSE IF level.reduction_var_map = {} /\ n_gcc
          THEN <<[txt |-> "#pragma GCC ivdep", n |-> 0]>>
        ELSE <<>>
      line2 == [txt |-> "for", n |-> level.var, offset |-> level.offset,
                size |-> level.size, steps |-> level.steps]
  IN IF level.collapsed THEN <<line2>> ELSE Append(line1, line2)

RECURSIVE writelines(_, _)
writelines(self, lines) ==
  IF lines = <<>> THEN self
  ELSE writelines([self EXCEPT !.code = Append(@, Head(lines))], Tail(lines))

\* LoopLevel.get_kernels and the concatenation over a list of levels
RECURSIVE get_kernels(_, _)
RECURSIVE get_kernels_of(_, _)
get_kernels(root, p) ==
  IF root[p].kernel # "none" THEN <<root[p].kernel>>
  ELSE get_kernels_of(root, Inner(root, p))
get_kernels_of(root, loops) ==
  IF loops = <<>> THEN <<>>
  ELSE get_kernels(root, Head(loops)) \o get_kernels_of(root, Tail(loops))

\* LoopNestWithSplit.max_parallel_depth
RECURSIVE max_depth_from(_, _, _)
max_depth_from(root, p, red) ==
  LET loops == Inner(root, p) IN
  IF Len(loops) = 1 /\ is_reduction(root[loops[1]]) = red
    THEN 1 + max_depth_from(root, loops[1], red)
    ELSE 0

max_parallel_depth_through_split(nest) ==
  Cardinality({p \in DOMAIN nest.root : p = Ones(Len(p))})
max_parallel_depth(nest) ==
  max_depth_from(nest.root, <<>>,
                 IF DOMAIN nest.root # {} THEN is_reduction(nest.root[<<1>>])
                 ELSE FALSE)

\* LoopNestWithSplit.is_reduction_only
is_reduction_only_never(nest) == FALSE
is_reduction_only(nest) ==
  DOMAIN nest.root # {} /\ is_reduction(nest.root[<<1>>])

\* LoopNestWithSplit.mark_parallel
mark_parallel(nest, par_depth) ==
  [nest EXCEPT !.root =
     [p \in DOMAIN nest.root |->
        IF p = <<1>> THEN [nest.root[p] EXCEPT !.parallel = par_depth]
        ELSE IF p = Ones(Len(p)) /\ Len(p) <= par_depth
          THEN [nest.root[p] EXCEPT !.collapsed = TRUE]
        ELSE nest.root[p]]]

\* the levels mark_parallel writes to: loops[0] from the root down
MarkedLevels(par_depth) == {Ones(d) : d \in 1..par_depth}

\* the loop of decide_parallel_depth, as ParLoop runs it
RECURSIVE decide_loop(_, _, _, _, _)
decide_loop(rngs, par, seq, depth, threads) ==
  IF rngs = <<>> \/ ParReached(par, threads) \/ NotEnoughWork(seq, threads)
    THEN depth
    ELSE decide_loop(Tail(rngs), par * Head(rngs), seq \div Head(rngs),
                     depth + 1, threads)

decide_parallel_depth(call_rngs, rngs, threads) ==
  FinalDepth(decide_loop(rngs, 1, sympy_product(call_rngs), 0, threads),
             Len(rngs))

\* gen_kernel
gen_kernel(self, kernel, k) ==
  splice(self, kernel, KernelLoopBody(kernel, k))

\* the suffixes of every kernel under the reduction levels of loops
RECURSIVE splice_suffixes(_, _, _)
splice_suffixes(self, kernels, k) ==
  IF kernels = <<>> THEN self
  ELSE splice_suffixes(splice(self, Head(kernels),
                              KernelSuffix(Head(kernels), k)),
                       Tail(kernels), k)

RECURSIVE gen_suffixes(_, _, _, _)
gen_suffixes(self, c, loops, in_reduction) ==
  IF loops = <<>> THEN self
  ELSE gen_suffixes(
         IF is_reduction(c.nest.root[Head(loops)]) /\ ~in_reduction
           THEN splice_suffixes(self, get_kernels(c.nest.root, Head(loops)),
                                c.k)
           ELSE self,
         c, Tail(loops), in_reduction)

\* gen_loops and gen_loop; c holds loop_nest, threads and the kernels' shape
RECURSIVE gen_loops(_, _, _, _)
RECURSIVE gen_loop(_, _, _, _)
RECURSIVE gen_each(_, _, _, _)
gen_each(self, c, loops, in_reduction) ==
  IF loops = <<>> THEN self
  ELSE gen_each(gen_loop(self, c, Head(loops), in_reduction), c, Tail(loops),
                in_reduction)

gen_loops(self, c, loops, in_reduction) ==
  IF loops = <<>> THEN self
  ELSE
    LET root == c.nest.root
        first == root[loops[1]]
        \* `loop` after `for loop in loops` is the last of them
        last == root[loops[Len(loops)]]
        outer == is_reduction(first) /\ ~in_reduction
        kernels == get_kernels(root, loops[1])
        indent == outer /\ KernelPrefix(kernels[1], c.k) # <<>>
        s1 == IF indent THEN brace_open(self) ELSE self
        s2 == IF outer
                THEN splice(s1, kernels[1], KernelPrefix(kernels[1], c.k))
                ELSE s1
        s3 == IF is_reduction_only(c.nest) /\ first.parallel > 0
                THEN WorkSharing_parallel(s2, c.threads) ELSE s2
        s4 == gen_each(s3, c, loops, in_reduction)
        s5 == IF is_reduction_only(c.nest) /\ last.parallel > 0
                THEN WorkSharing_close(s4) ELSE s4
        s6 == gen_suffixes(s5, c, loops, in_reduction)
    IN IF indent THEN brace_close(s6) ELSE s6

gen_loop(self, c, p, in_reduction) ==
  LET root == c.nest.root
      s1 == brace_open(writelines(self, LoopLevel_lines(root[p])))
      s2 == IF Inner(root, p) # <<>>
              THEN gen_loops(s1, c, Inner(root, p), is_reduction(root[p]))
              ELSE gen_kernel(s1, get_kernels(root, p)[1], c.k)
  IN brace_close(s2)

codegen_loops_impl(self, nest, k, threads, par_depth) ==
  LET single == par_depth = 0 /\ threads > 1 /\ self.in_parallel
      s1 == IF par_depth > 0
              THEN IF is_reduction_only(nest) THEN WorkSharing_close(self)
                   ELSE WorkSharing_parallel(self, threads)
            ELSE IF threads > 1
              THEN IF single THEN brace_open(WorkSharing_single(self))
                   ELSE WorkSharing_single(self)
            ELSE self
      c == [nest |-> IF par_depth > 0 THEN mark_parallel(nest, par_depth)
                     ELSE nest,
            threads |-> threads, k |-> k]
      s2 == brace_open(s1)
      s3 == IF DOMAIN nest.root # {}
              THEN gen_loops(s2, c, Inner(nest.root, <<>>), FALSE)
              ELSE gen_kernel(s2, nest.kernel, k)
      s4 == brace_close(s3)
  IN IF single THEN brace_close(s4) ELSE s4

\* codegen_loops_impl on the nest that codegen_loops prepared
NestCodegen ==
  /\ \/ n_pc = "built" /\ ~n_vec
     \/ n_pc = "ready"
  /\ n_par' = decide_parallel_depth(
                n_kernel.ranges,
                SubSeq(n_kernel.ranges, 1, max_parallel_depth(loop_nest)),
                n_threads)
  /\ ws' = codegen_loops_impl(ws, loop_nest, n_kernel, n_threads, n_par')
  /\ loop_nest' = IF n_par' > 0 THEN mark_parallel(loop_nest, n_par')
                  ELSE loop_nest
  /\ n_pc' = "done"
  /\ UNCHANGED <<n_kernel, n_vec, n_split, n_threads, n_gcc>>
  /\ UNCHANGED notNest

\* =========================================================================
\* The loop levels as objects: LoopLevel.clone, split_with_tiling, set_kernel
\* =========================================================================
\* Objects are numbered: heap.lv[i] is a LoopLevel, heap.ls[i] a list of
\* levels, heap.dm[i] a reduction_var_map dict, heap.kn[i] a kernel. A field
\* holds the number of the object it refers to, 0 for None.
notLast ==
  <<kernelVars, splitVars, argVars, redVars, checkerVars, parVars,
    canvecVars, groupVars, nestVars>>

\* what the actions of each of the last parts leave alone
notHeap == <<notLast, combVars, pairVars, createVars>>
notComb == <<notLast, heapVars, pairVars, createVars>>
notPair == <<notLast, heapVars, combVars, createVars>>
notCreate == <<notLast, heapVars, combVars, pairVars>>

\* the scalar kernel (kernel 1, its map dict 1) and the vector kernel
\* (kernel 2, its map dict 2)
HeapInit(k) ==
  [lv |-> <<>>, ls |-> << <<>> >>,
   dm |-> <<KernelMap("scalar", k), KernelMap("vec", k)>>,
   kn |-> <<"scalar", "vec">>]

\* LoopLevel.is_reduction on the heap: bool(self.reduction_var_map)
heap_is_reduction(h, l) ==
  h.lv[l].map # 0 /\ h.dm[h.lv[l].map] # {}

\* the loop of build from a depth on: levels is the list appended to, loop
\* the level made last
RECURSIVE heap_build_from(_, _, _, _, _)
heap_build_from(h, k, depth, levels, lp) ==
  IF depth = Len(k.ranges) THEN [h |-> h, loop |-> lp]
  ELSE
    LET id == Len(h.lv) + 1
        inner == Len(h.ls) + 1
        red == InReduction(depth, k.reduction_depth)
        h1 == [lv |-> Append(h.lv,
                        [var |-> depth, size |-> k.ranges[depth + 1],
                         offset |-> 0,
                         map |-> IF red THEN Len(h.dm) + 1 ELSE 0,
                         parent |-> lp, inner |-> inner, kernel |-> 0]),
               ls |-> [Append(h.ls, <<>>) EXCEPT ![levels] = Append(@, id)],
               dm |-> IF red THEN Append(h.dm, h.dm[1]) ELSE h.dm,
               kn |-> h.kn]
    IN heap_build_from(h1, k, depth + 1, inner, id)

\* LoopNestWithSplit.build(kernel) with the scalar kernel; the root is list 1
heap_build(k) ==
  LET r == heap_build_from(HeapInit(k), k, 0, 1, 0)
  IN IF r.loop # 0 THEN [r.h EXCEPT !.lv[r.loop].kernel = 1] ELSE r.h

\* LoopLevel.clone: copy(self) keeps self's inner list, map and parent; the
\* clones of the inner levels are then written into that list
RECURSIVE heap_clone(_, _)
RECURSIVE heap_clone_children(_, _, _, _)
heap_clone(h, self) ==
  LET lp == Len(h.lv) + 1
      h1 == [h EXCEPT !.lv = Append(@, h.lv[self])]
      h2 == heap_clone_children(h1, lp, h.lv[self].inner, 1)
      kernel == h.lv[self].kernel
  IN [h |-> IF kernel = 0 THEN h2
            ELSE [h2 EXCEPT !.kn = Append(@, h2.kn[kernel]),
                            !.lv[lp].kernel = Len(h2.kn) + 1],
      id |-> lp]

heap_clone_children(h, lp, inner, idx) ==
  IF idx > Len(h.ls[inner]) THEN h
  ELSE
    LET r == heap_clone(h, h.ls[inner][idx])
    IN heap_clone_children(
         [r.h EXCEPT !.ls[inner][idx] = r.id, !.lv[r.id].parent = lp],
         lp, inner, idx + 1)

\* clone_inner of split_with_tiling, appended to the list `inner`
RECURSIVE heap_clone_inner(_, _, _, _)
heap_clone_inner(h, self, inner, idx) ==
  IF idx > Len(h.ls[h.lv[self].inner]) THEN h
  ELSE
    LET r == heap_clone(h, h.ls[h.lv[self].inner][idx])
    IN heap_clone_inner([r.h EXCEPT !.ls[inner] = Append(@, r.id)],
                        self, inner, idx + 1)

RECURSIVE heap_set_parents(_, _, _, _)
heap_set_parents(h, inner, idx, parent) ==
  IF idx > Len(h.ls[inner]) THEN h
  ELSE heap_set_parents([h EXCEPT !.lv[h.ls[inner][idx]].parent = parent],
                        inner, idx + 1, parent)

\* one half of do_split_with_tiling: the new level shares self's map
heap_split_half(h, self, size, offset) ==
  LET id == Len(h.lv) + 1
      inner == Len(h.ls) + 1
      h1 == [h EXCEPT
               !.lv = Append(@, [var |-> h.lv[self].var, size |-> size,
                                 offset |-> offset, map |-> h.lv[self].map,
                                 parent |-> 0, inner |-> inner,
                                 kernel |-> 0]),
               !.ls = Append(@, <<>>)]
      h2 == heap_clone_inner(h1, self, inner, 1)
  IN [h |-> heap_set_parents(h2, inner, 1, id), id |-> id]

\* LoopLevel.split_with_tiling(0, factor) on the level self
heap_split(h, self, factor) ==
  LET size == h.lv[self].size
      main == heap_split_half(h, self, IndexingDiv(size, factor), 0)
      tail == heap_split_half(main.h, self, size,
                              IndexingDiv(size, factor) * factor)
      parent == h.lv[self].parent
      pair == Len(tail.h.ls) + 1
  IN [h |-> IF parent # 0
              THEN [tail.h EXCEPT !.ls = Append(@, <<main.id, tail.id>>),
                                  !.lv[parent].inner = pair,
                                  !.lv[main.id].parent = parent,
                                  !.lv[tail.id].parent = parent]
              ELSE [tail.h EXCEPT !.ls = Append(@, <<main.id, tail.id>>)],
      main |-> main.id, tail |-> tail.id, pair |-> pair]

\* the leaf set_kernel reaches: inner[0] while the level has inner levels
RECURSIVE heap_leaf(_, _)
heap_leaf(h, l) ==
  IF h.ls[h.lv[l].inner] = <<>> THEN l
  ELSE heap_leaf(h, h.ls[h.lv[l].inner][1])

\* `while loop is not None and loop.is_reduction(): update; loop = parent`
RECURSIVE heap_update_parents(_, _, _)
heap_update_parents(h, lp, kernel) ==
  IF lp = 0 \/ ~heap_is_reduction(h, lp) THEN h
  ELSE heap_update_parents(
         [h EXCEPT !.dm[h.lv[lp].map] = @ \cup h.dm[kernel]],
         h.lv[lp].parent, kernel)

\* LoopLevel.set_kernel(kernel): kernel is the kernel's number, its
\* reduction_var_map the dict of the same number
heap_set_kernel(h, self, kernel) ==
  LET leaf == heap_leaf(h, self)
      h1 == [h EXCEPT !.lv[leaf].kernel = kernel]
  IN IF heap_is_reduction(h1, leaf)
       THEN heap_update_parents(
              [h1 EXCEPT !.dm = Append(@, h1.dm[kernel]),
                         !.lv[leaf].map = Len(h1.dm) + 1],
              h1.lv[leaf].parent, kernel)
       ELSE h1

HeapIdle ==
  /\ heap = [lv |-> <<>>, ls |-> <<>>, dm |-> <<>>, kn |-> <<>>]
  /\ h_root = 0
  /\ h_k = [ranges |-> <<>>, reduction_depth |-> 0, rtype |-> "sum"]
  /\ h_depth = 0 /\ h_ret = <<>> /\ h_orig = 0
  /\ h_before = [heap |-> heap, on |-> 0, kernel |-> 0]
  /\ h_pc = "idle"

\* LoopNestWithSplit.build
HeapBuild ==
  /\ h_pc = "start"
  /\ heap' = heap_build(h_k)
  /\ h_root' = 1
  /\ h_pc' = "built"
  /\ UNCHANGED <<h_k, h_depth, h_ret, h_orig, h_before>>
  /\ UNCHANGED notHeap

\* the level get_loops_at(depth) finds in a nest that was not split
RECURSIVE heap_level_at(_, _, _)
heap_level_at(h, list, depth) ==
  IF depth = 0 THEN h.ls[list][1]
  ELSE heap_level_at(h, h.lv[h.ls[list][1]].inner, depth - 1)

\* LoopNestWithSplit.split_with_tiling(depth, factor)
HeapSplit ==
  /\ h_pc = "built"
  /\ h_depth < Len(h_k.ranges)
  /\ LET self == heap_level_at(heap, h_root, h_depth)
         r == heap_split(heap, self, simd_nelements)
     IN /\ heap' = r.h
        /\ h_root' = IF h_depth = 0 THEN r.pair ELSE h_root
        /\ h_ret' = <<r.main, r.tail>>
        /\ h_orig' = self
  /\ h_pc' = "split"
  /\ UNCHANGED <<h_k, h_depth, h_before>>
  /\ UNCHANGED notHeap

\* main_loop.set_kernel(kernel) or tail_loop.set_kernel(kernel), with the
\* vector or the scalar kernel
HeapSetKernel ==
  /\ h_pc = "split"
  /\ \E i \in 1..2, kernel \in 1..2 :
       /\ heap' = heap_set_kernel(heap, h_ret[i], kernel)
       /\ h_before' = [heap |-> heap, on |-> i, kernel |-> kernel]
  /\ h_pc' = "set"
  /\ UNCHANGED <<h_root, h_k, h_depth, h_ret, h_orig>>
  /\ UNCHANGED notHeap

\* =========================================================================
\* The argmax / argmin loop under `#pragma omp for reduction(argmax:tmpvar)`
\* =========================================================================
\* the initializer of the declared reduction and of tmpvar: {0, init}
ArgInit(type) ==
  [index |-> 0, value |-> InitValue(reduction_init(type, "float32"), "float32")]

\* the combiner of `#pragma omp declare reduction`, for argmax
\*   omp_out.value = omp_in.value < omp_out.value ? omp_out.value : omp_in.value,
\*   omp_out.index = omp_in.value < omp_out.value ? omp_out.index : omp_in.index
\* (argmin: >); the second assignment reads the value the first one wrote
omp_combine(type, omp_out, omp_in) ==
  LET op == IF type = "argmax" THEN "<" ELSE ">"
      value == IF Compare(op, omp_in.value, omp_out.value)
                 THEN omp_out.value ELSE omp_in.value
  IN [value |-> value,
      index |-> IF Compare(op, omp_in.value, value)
                  THEN omp_out.index ELSE omp_in.index]

CombIdle ==
  /\ c_type = "argmax" /\ c_vals = <<>> /\ c_cuts = <<>> /\ c_k = 0
  /\ c_i = 0 /\ c_priv = [index |-> 0, value |-> Unset]
  /\ c_out = [index |-> 0, value |-> Unset] /\ c_pc = "idle"

\* the prefix line `IndexValue_N tmpvar{0, init};`
CombDeclare ==
  /\ c_pc = "start"
  /\ c_out' = ArgInit(c_type)
  /\ c_k' = 1
  /\ c_pc' = "chunk"
  /\ UNCHANGED <<c_type, c_vals, c_cuts, c_i, c_priv>>
  /\ UNCHANGED notComb

\* a thread takes its chunk: its private copy is omp_priv = {0, init}
CombPrivate ==
  /\ c_pc = "chunk"
  /\ c_k <= Len(c_cuts)
  /\ c_priv' = ArgInit(c_type)
  /\ c_i' = IF c_k = 1 THEN 0 ELSE c_cuts[c_k - 1]
  /\ c_pc' = "loop"
  /\ UNCHANGED <<c_type, c_vals, c_cuts, c_k, c_out>>
  /\ UNCHANGED notComb

\* one iteration of the thread's chunk, on its private copy
CombIter ==
  /\ c_pc = "loop"
  /\ c_i < c_cuts[c_k]
  /\ c_priv' = ArgBody(c_type, c_priv, c_i, c_vals[c_i + 1])
  /\ c_i' = c_i + 1
  /\ UNCHANGED <<c_type, c_vals, c_cuts, c_k, c_out, c_pc>>
  /\ UNCHANGED notComb

\* the thread's partial result is combined into tmpvar, chunks in order
CombMerge ==
  /\ c_pc = "loop"
  /\ c_i = c_cuts[c_k]
  /\ c_out' = omp_combine(c_type, c_out, c_priv)
  /\ c_k' = c_k + 1
  /\ c_pc' = IF c_k = Len(c_cuts) THEN "done" ELSE "chunk"
  /\ UNCHANGED <<c_type, c_vals, c_cuts, c_i, c_priv>>
  /\ UNCHANGED notComb

\* ---------------------------------------- KernelGroup.finalize_kernel
\* the next kernel of the group: self.count += 1, then its codegen_loops
\* with the group's code and work-sharing coordinator
SeqShapes == {<<<<>>, 0>>, <<<<8>>, 1>>, <<<<8>>, 0>>, <<<<4, 8>>, 1>>}

SeqNext ==
  /\ n_pc \in {"group", "done"}
  /\ g_calls < MaxCalls
  /\ g_calls' = g_calls + 1
  /\ g_ret' = [op |-> "finalize_kernel", threads |-> n_threads,
               prev |-> GroupBefore]
  /\ count' = count + 1
  /\ \E sh \in SeqShapes :
       n_kernel' = [ranges |-> sh[1], reduction_depth |-> sh[2],
                    rtype |-> "sum"]
  /\ n_vec' \in BOOLEAN
  /\ n_vec' => Len(n_kernel'.ranges) > 0
  /\ loop_nest' = [root |-> <<>>, kernel |-> "none"]
  /\ n_split' = <<>>
  /\ n_par' = 0
  /\ n_pc' = "start"
  /\ UNCHANGED <<n_threads, n_gcc, ws, group_id, wrapper_calls, kernel_suffix>>
  /\ UNCHANGED <<kernelVars, splitVars, argVars, redVars, checkerVars,
                 parVars, canvecVars, lastVars>>

\* ------------------------------------ one node body run by both kernels
\* _codegen_nodes_impl(is_simd_vec=True): create_kernel(True) then
\* create_kernel(False) run the same nodes, the first with CppVecOverrides
\* and the second with CppOverrides; each kernel has its own cse.
\* An expression's text is [f, a, b]: the template and the handles in it.
Text(f, a, b) == [f |-> f, a |-> a, b |-> b]

\* cse.generate on a kernel's cse, returning the cse after it and the handle
cse_generate(cse, expr) ==
  IF \E e \in cse.cache : e.key = expr
    THEN [cse |-> cse, var |-> (CHOOSE e \in cse.cache : e.key = expr).var]
    ELSE [cse |-> [cache |-> cse.cache \cup {[key |-> expr, var |-> cse.counter]},
                   counter |-> cse.counter + 1],
          var |-> cse.counter]

\* ops.<name>(...) through the kernel's handler: the text the op table
\* returns goes to cse.generate
CppVecOverrides(cse, name, a, b) ==
  CASE name = "exp" -> cse_generate(cse, Text("{x}.exp()", a, -1))
    [] name = "sigmoid" ->
         cse_generate(cse,
           Text("decltype({x})(1)/(decltype({x})(1) + {x}.neg().exp())", a, -1))
    [] name = "add" -> cse_generate(cse, Text("{a} + {b}", a, b))

CppOverrides_sigmoid(cse, a) ==
  LET x == cse_generate(cse, Text("std::exp(-{x})", a, -1))
  IN  cse_generate(x.cse, Text("1 / (1 + {x})", x.var, -1))

CppOverrides(cse, name, a, b) ==
  CASE name = "exp" -> cse_generate(cse, Text("std::exp({x})", a, -1))
    [] name = "sigmoid" -> CppOverrides_sigmoid(cse, a)
    [] name = "add" -> cse_generate(cse, Text("{a} + {b}", a, b))
    [] name = "signbit" -> cse_generate(cse, Text("std::signbit({x})", a, -1))

PairOps == {"exp", "sigmoid", "add", "signbit"}

PairIdle ==
  /\ q_vec = [cache |-> {}, counter |-> 0]
  /\ q_sc = [cache |-> {}, counter |-> 0]
  /\ q_vals = <<>>
  /\ q_ok = TRUE
  /\ q_out = [declared |-> -1, folded |-> -1, combined |-> -1, flushed |-> -1]
  /\ q_pc = "body"

\* load of a float buffer at the innermost variable
PairLoad ==
  /\ q_pc = "body" /\ Len(q_vals) < MaxOps
  /\ \E name \in 0..1 :
       LET v == cse_generate(q_vec, Text("loadu({var} + {index})", name, 0))
           s == cse_generate(q_sc, Text("{var}[{index}]", name, 0))
       IN  /\ q_vec' = v.cse /\ q_sc' = s.cse
           /\ q_vals' = Append(q_vals, [vec |-> v.var, sc |-> s.var])
  /\ UNCHANGED <<q_ok, q_out, q_pc>>
  /\ UNCHANGED notPair

PairOp ==
  /\ q_pc = "body" /\ Len(q_vals) < MaxOps
  /\ \E name \in PairOps, i \in DOMAIN q_vals, j \in DOMAIN q_vals :
       /\ name # "add" => j = i
       /\ IF name \in fast_vec_list
            THEN LET v == CppVecOverrides(q_vec, name, q_vals[i].vec,
                                          q_vals[j].vec)
                     s == CppOverrides(q_sc, name, q_vals[i].sc, q_vals[j].sc)
                 IN  /\ q_vec' = v.cse /\ q_sc' = s.cse
                     /\ q_vals' = Append(q_vals, [vec |-> v.var, sc |-> s.var])
                     /\ UNCHANGED <<q_ok, q_pc>>
            ELSE /\ q_ok' = FALSE /\ q_pc' = "rejected"
                 /\ UNCHANGED <<q_vec, q_sc, q_vals>>
  /\ UNCHANGED q_out
  /\ UNCHANGED notPair

\* the reduction of the body: CppVecKernel.reduction names tmpvar in the
\* prefix declaration and in the fold of the suffix, CppKernel.reduction in
\* the combine and in the flush
PairReduction ==
  /\ q_pc = "body" /\ q_vals # <<>>
  /\ LET key == Text("reduction {name} {index}", 0, 0)
         v == cse_generate(q_vec, key)
         s == cse_generate(q_sc, key)
     IN  /\ q_vec' = v.cse /\ q_sc' = s.cse
         /\ q_out' = [declared |-> v.var,
                      folded |-> vec_reduction_fold("out0", v.var, "sum").dst,
                      combined |-> s.var,
                      flushed |-> reduction_flush("out0", NoIdx, s.var, "").val]
  /\ q_pc' = "reduced"
  /\ UNCHANGED <<q_vals, q_ok>>
  /\ UNCHANGED notPair

\* ------------------------------------- _codegen_nodes_impl.create_kernel
\* A buffer object holds a sequence of lines, a cse object a cache; the
\* kernel's fields hold object numbers, so that rebinding a field and
\* writing to the object it names are told apart.
CreateLine(txt, node, tmp) == [txt |-> txt, node |-> node, tmp |-> tmp]

NoBefore == [self |-> <<>>, obj |-> <<>>, loads |-> <<>>, compute |-> <<>>,
             stores |-> <<>>, exited |-> FALSE]

CreateIdle ==
  /\ k_group = <<>> /\ k_rgroup = <<>> /\ k_nodes = <<>> /\ k_i = 0
  /\ k_in_suffix = FALSE /\ k_log = <<>>
  /\ k_self = [loads |-> 1, compute |-> 2, stores |-> 3, cse |-> 4,
               reduction_suffix |-> <<>>]
  /\ k_obj = <<<<>>, <<>>, <<>>, {}>>
  /\ k_tmp = 0
  /\ k_before = NoBefore
  /\ k_exc = "" /\ k_pc = "idle"

\* node.run under the kernel's handler: a load and an op through
\* cse.generate on the kernel's cse, writing to self.loads and self.compute,
\* and a store written to self.stores
node_run(self, obj, node, tmp) ==
  [obj EXCEPT
     ![self.loads] = Append(@, CreateLine("load", node, tmp)),
     ![self.compute] = Append(@, CreateLine("op", node, tmp + 1)),
     ![self.stores] = Append(@, CreateLine("store", node, tmp + 1)),
     ![self.cse] = @ \cup {[key |-> <<"load", node>>, var |-> tmp],
                            [key |-> <<"op", node>>, var |-> tmp + 1]}]

\* write_to_suffix up to the yield: three new buffers and self.cse.clone()
suffix_enter(self, obj) ==
  [self |-> [self EXCEPT !.loads = Len(obj) + 1, !.compute = Len(obj) + 2,
                         !.stores = Len(obj) + 3, !.cse = Len(obj) + 4],
   obj |-> obj \o <<<<>>, <<>>, <<>>, obj[self.cse]>>]

\* the three splices after the yield
suffix_splice_stores_first(suffix, lds, cmp, sts) == suffix \o sts \o lds \o cmp
suffix_splice(suffix, lds, cmp, sts) == suffix \o lds \o cmp \o sts

\* write_to_suffix after the yield: splice, then rebind the four fields
suffix_exit(prior, self, obj) ==
  [self EXCEPT !.reduction_suffix =
                 suffix_splice(@, obj[self.loads], obj[self.compute],
                               obj[self.stores]),
               !.loads = prior.loads, !.compute = prior.compute,
               !.stores = prior.stores, !.cse = prior.cse]

\* node.group[1] in [(group, reduction_group), (group + reduction_group, ())]
FullSpace(grp) ==
  grp \in {<<k_group, k_rgroup>>, <<k_group \o k_rgroup, <<>>>>}
PointwiseOnly(grp) == grp = <<k_group, <<>>>>

\* `assert not in_suffix`
SuffixAssert_off(in_suffix) == TRUE
SuffixAssert(in_suffix) == ~in_suffix

CreateFail(exc) ==
  /\ k_exc' = exc /\ k_pc' = "failed"
  /\ UNCHANGED <<k_i, k_log>>

\* one pass of `for node in nodes`
CreateNode ==
  /\ k_pc = "run" /\ k_i <= Len(k_nodes)
  /\ LET node == k_nodes[k_i]
         entered == suffix_enter(k_self, k_obj)
         inside == node_run(entered.self, entered.obj, k_i, k_tmp)
     IN IF FullSpace(node.grp)
          THEN /\ UNCHANGED <<k_in_suffix, k_before>>
               /\ IF ~SuffixAssert(k_in_suffix)
                    THEN /\ CreateFail("AssertionError")
                         /\ UNCHANGED <<k_self, k_obj, k_tmp>>
                  ELSE IF node.raises
                    THEN /\ CreateFail("Exception")
                         /\ UNCHANGED <<k_self, k_obj, k_tmp>>
                  ELSE /\ k_obj' = node_run(k_self, k_obj, k_i, k_tmp)
                       /\ k_tmp' = k_tmp + 2
                       /\ k_log' = Append(k_log, [node |-> k_i,
                                                  suffix |-> FALSE])
                       /\ k_i' = k_i + 1
                       /\ UNCHANGED <<k_self, k_exc, k_pc>>
          ELSE /\ k_in_suffix' = TRUE
               /\ IF ~PointwiseOnly(node.grp)
                    THEN /\ CreateFail("AssertionError")
                         /\ UNCHANGED <<k_self, k_obj, k_tmp, k_before>>
                  ELSE IF node.raises
                    \* the exception leaves the block at the yield
                    THEN /\ CreateFail("Exception")
                         /\ k_self' = entered.self
                         /\ k_obj' = entered.obj
                         /\ k_before' = [self |-> k_self, obj |-> k_obj,
                                         loads |-> <<>>, compute |-> <<>>,
                                         stores |-> <<>>, exited |-> FALSE]
                         /\ UNCHANGED k_tmp
                  ELSE /\ k_self' = suffix_exit(k_self, entered.self, inside)
                       /\ k_obj' = inside
                       /\ k_tmp' = k_tmp + 2
                       /\ k_before' =
                            [self |-> k_self, obj |-> k_obj,
                             loads |-> inside[entered.self.loads],
                             compute |-> inside[entered.self.compute],
                             stores |-> inside[entered.self.stores],
                             exited |-> TRUE]
                       /\ k_log' = Append(k_log, [node |-> k_i,
                                                  suffix |-> TRUE])
                       /\ k_i' = k_i + 1
                       /\ UNCHANGED <<k_exc, k_pc>>
  /\ UNCHANGED <<k_group, k_rgroup, k_nodes>>
  /\ UNCHANGED notCreate

\* `return kernel`
CreateReturn ==
  /\ k_pc = "run" /\ k_i > Len(k_nodes)
  /\ k_pc' = "done"
  /\ UNCHANGED <<k_group, k_rgroup, k_nodes, k_i, k_in_suffix, k_log, k_self,
                 k_obj, k_tmp, k_before, k_exc>>
  /\ UNCHANGED notCreate

\* =========================================================================
\* Specifications
\* =========================================================================
\* the parts modelled after the kernel's, at rest, but for those named
LastIdle(except) ==
  /\ ("heap" \in except \/ HeapIdle)
  /\ ("comb" \in except \/ CombIdle)
  /\ ("pair" \in except \/ PairIdle)
  /\ ("create" \in except \/ CreateIdle)

LaterIdle(except) ==
  /\ ("canvec" \in except \/ CanVecIdle)
  /\ ("group" \in except \/ GroupIdle)
  /\ ("nest" \in except \/ NestIdle)
  /\ LastIdle(except)

\* every content of two small input buffers
InputValues == {Fin(-1), Fin(1), NegInf}

\* the buffer's elements, and ones in the memory after it
Padded(f) == [e \in 0..CoverMax |-> IF e \in DOMAIN f THEN f[e] ELSE Fin(1)]

\* every loop size and tiling factor, on a buffer of ones
InitSplit ==
  /\ kclass = "scalar" /\ num_threads = 1 /\ dynamic_threads = FALSE
  /\ KernelInit
  /\ ArgIdle /\ RedIdle /\ CheckerIdle /\ ParIdle
  /\ LaterIdle({})
  /\ simd_nelements \in 1..MaxW
  /\ N \in 0..MaxN
  /\ in0 = [e \in 0..CoverMax |-> Fin(1)]
  /\ in1 = [e \in 0..CoverMax |-> Fin(1)]
  /\ SplitStart

InitEquiv ==
  /\ kclass = "scalar" /\ num_threads = 1 /\ dynamic_threads = FALSE
  /\ KernelInit
  /\ ArgIdle /\ RedIdle /\ CheckerIdle /\ ParIdle
  /\ LaterIdle({})
  /\ simd_nelements \in 2..MaxW
  /\ N \in 0..EquivN
  /\ in0 \in {Padded(f) : f \in [0..(N - 1) -> InputValues]}
  /\ in1 \in {Padded(f) : f \in [0..(N - 1) -> InputValues]}
  /\ SplitStart

NextSplit ==
  Build \/ SplitLoop \/ MainIter \/ TailIter \/ SplitRunEnds \/ ScalarIter

SpecSplit == InitSplit /\ [][NextSplit]_vars

SpecEquiv == InitEquiv /\ [][NextSplit]_vars

InitRed ==
  /\ KernelIdle /\ dynamic_threads = FALSE
  /\ SplitIdle /\ ArgIdle /\ CheckerIdle /\ ParIdle
  /\ LaterIdle({})
  /\ r_type \in {"sum", "max", "min"}
  /\ r_dtype \in DTypes
  /\ r_vec \in {FALSE} \cup {v \in {TRUE} : r_dtype = "float32"}
  /\ r_x \in SampleValues(r_dtype)
  /\ r_var = Unset
  /\ r_pc = "start"

NextRed == RedDeclare \/ RedCombine \/ RedCombineVec

SpecRed == InitRed /\ [][NextRed]_vars

InitArg ==
  /\ KernelIdle /\ dynamic_threads = FALSE
  /\ SplitIdle /\ RedIdle /\ CheckerIdle /\ ParIdle
  /\ LaterIdle({})
  /\ a_type \in {"argmax", "argmin"}
  /\ a_dtype \in {"float32", "int8"}
  /\ \E n \in 1..MaxLen : a_vals \in [1..n -> ArgValues(a_dtype)]
  /\ a_i = 0
  /\ a_acc = [index |-> 0, value |-> Unset]
  /\ a_out = -1
  /\ a_pc = "start"

NextArg == ArgDeclare \/ ArgIter \/ ArgFlush

SpecArg == InitArg /\ [][NextArg]_vars

\* a dry run of the checker: set_ranges, then the nodes' operations
InitChecker ==
  /\ kclass = "checker"
  /\ num_threads = 1 /\ dynamic_threads = FALSE /\ simd_nelements = 8
  /\ KernelInit
  /\ simd_vec = TRUE
  /\ SplitIdle /\ ArgIdle /\ RedIdle /\ ParIdle
  /\ LaterIdle({})

NextChecker ==
  \/ SetRanges
  \/ CheckerLoad \/ CheckerStore \/ CheckerReduction
  \/ ProxyGetattr \/ ProxyConstant \/ ProxyIndexExpr \/ ProxyIndirectIndexing
  \/ ProxyMasked \/ ProxyToDtype

SpecChecker == InitChecker /\ [][NextChecker]_vars

ParCallRanges == {<<1000, 4>>, <<8, 8>>, <<64>>, <<2, 1000>>}

InitPar ==
  /\ KernelIdle /\ SplitIdle /\ ArgIdle /\ RedIdle /\ CheckerIdle
  /\ LaterIdle({})
  /\ dynamic_threads \in BOOLEAN
  /\ p_call_ranges \in ParCallRanges
  /\ \E n \in 0..Len(p_call_ranges) : p_ranges = SubSeq(p_call_ranges, 1, n)
  /\ p_threads \in 1..MaxThreads
  /\ p_min_chunk \in {16, 4096}
  /\ p_seq = 0 /\ p_par = 0 /\ p_depth = 0 /\ p_k = 0
  /\ p_pc = "start"

NextPar == ParEnter \/ ParLoop \/ ParReturn

SpecPar == InitPar /\ [][NextPar]_vars

InitCanVec ==
  /\ KernelIdle /\ dynamic_threads = FALSE
  /\ SplitIdle /\ ArgIdle /\ RedIdle /\ ParIdle
  /\ LaterIdle({"canvec"})
  /\ simd_vec = TRUE
  /\ vec_isa \in BOOLEAN
  /\ wrapper_code \in {"wrapper", "cpp_wrapper"}
  /\ ops_handler \in {"ops", "outer_ops"}
  /\ kernel_handler \in {"kernel", "NullKernelHandler"}
  /\ handler_stack = <<>>
  /\ orig_wrapper_code = "None"
  /\ \E t \in SUBSET {"in0", "buf0"} : args_table = [group |-> t, copy |-> {}]
  /\ checker_args = "group"
  /\ \E n \in 1..MaxNodes : cv_nodes \in [1..n -> NodeKinds]
  /\ cv_i = 0
  /\ cv_runs = [i \in 1..Len(cv_nodes) |-> 0]
  /\ cv_exc = "" /\ cv_out = "none"
  /\ cv_before = [wrapper_code |-> wrapper_code, ops_handler |-> ops_handler,
                  kernel_handler |-> kernel_handler, args |-> args_table.group]
  /\ cv_pc = "start"

NextCanVec == CanVecNoIsa \/ CheckerEnter \/ NodeRun \/ CheckerExit

SpecCanVec == InitCanVec /\ [][NextCanVec]_vars

InitWs ==
  /\ kclass = "scalar" /\ num_threads = 1 /\ simd_nelements = 8 /\ KernelInit
  /\ dynamic_threads \in BOOLEAN
  /\ SplitIdle /\ ArgIdle /\ RedIdle /\ CheckerIdle /\ ParIdle
  /\ LaterIdle({})

NextWs == WsParallel \/ WsSingle \/ WsClose

SpecWs == InitWs /\ [][NextWs]_vars

InitFlush == InitWs

NextFlush == FinalizeKernel \/ Flush

SpecFlush == InitFlush /\ [][NextFlush]_vars

Init ==
  /\ kclass \in {"scalar", "vec"}
  /\ num_threads \in {1, 2}
  /\ dynamic_threads \in BOOLEAN
  /\ simd_nelements \in {8}
  /\ KernelInit
  /\ SplitIdle /\ ArgIdle /\ RedIdle /\ CheckerIdle /\ ParIdle
  /\ LaterIdle({})

Next == SetRanges \/ Load \/ Store \/ Reduction \/ Finalize

\* the ranges and reduction depths of the kernels whose loops are generated
NestShapes ==
  {<<<<>>, 0>>, <<<<8>>, 0>>, <<<<8>>, 1>>, <<<<4, 8>>, 0>>, <<<<4, 8>>, 1>>,
   <<<<4, 8>>, 2>>, <<<<2, 4, 8>>, 1>>, <<<<2, 4, 8>>, 3>>}

InitNest ==
  /\ KernelIdle /\ SplitIdle /\ ArgIdle /\ RedIdle /\ CheckerIdle /\ ParIdle
  /\ LaterIdle({"nest", "group"})
  /\ dynamic_threads \in BOOLEAN
  /\ \E sh \in NestShapes, rtype \in {"sum", "max"} :
       n_kernel = [ranges |-> sh[1], reduction_depth |-> sh[2],
                   rtype |-> rtype]
  /\ n_vec \in BOOLEAN
  /\ n_vec => Len(n_kernel.ranges) > 0
  /\ n_threads \in WsThreads
  /\ n_gcc \in BOOLEAN
  \* an earlier kernel of the group may have left a region open
  /\ ws \in {WorkSharing_init} \cup
            (IF n_threads > 1 \/ dynamic_threads
               THEN {WorkSharing_parallel(WorkSharing_init, n_threads)}
               ELSE {})
  /\ count = 0 /\ group_id = 0 /\ wrapper_calls = <<>> /\ kernel_suffix = 0
  /\ g_calls = 0
  /\ g_ret = [op |-> "none", threads |-> NoneInt,
              prev |-> [ws |-> WorkSharing_init, count |-> 0, group_id |-> 0,
                        ncalls |-> 0]]
  /\ loop_nest = [root |-> <<>>, kernel |-> "none"]
  /\ n_split = <<>> /\ n_par = 0
  /\ n_pc = "start"

NextNest == NestBuild \/ NestSplit \/ NestSetMain \/ NestSetTail \/ NestCodegen

SpecNest == InitNest /\ [][NextNest]_vars

\* nests of two and three levels, split at every depth
HeapShapes ==
  {<<<<16, 16>>, 0>>, <<<<16, 16>>, 1>>, <<<<16, 16>>, 2>>,
   <<<<16, 16, 16>>, 0>>, <<<<16, 16, 16>>, 1>>, <<<<16, 16, 16>>, 2>>,
   <<<<16, 16, 16>>, 3>>}

InitHeap ==
  /\ KernelIdle /\ dynamic_threads = FALSE
  /\ SplitIdle /\ ArgIdle /\ RedIdle /\ CheckerIdle /\ ParIdle
  /\ LaterIdle({"heap"})
  /\ \E sh \in HeapShapes, rtype \in {"sum", "max"} :
       h_k = [ranges |-> sh[1], reduction_depth |-> sh[2], rtype |-> rtype]
  /\ h_depth \in 0..(Len(h_k.ranges) - 1)
  /\ heap = [lv |-> <<>>, ls |-> <<>>, dm |-> <<>>, kn |-> <<>>]
  /\ h_root = 0 /\ h_ret = <<>> /\ h_orig = 0
  /\ h_before = [heap |-> heap, on |-> 0, kernel |-> 0]
  /\ h_pc = "start"

NextHeap == HeapBuild \/ HeapSplit \/ HeapSetKernel

SpecHeap == InitHeap /\ [][NextHeap]_vars

\* the values of a reduction with ties, cut into one to three chunks
CombValues == {NegInf, Fin(3), Fin(5)}

Cuts(n) ==
  {<<n>>} \cup {<<a, n>> : a \in 1..(n - 1)}
    \cup {c \in {<<a, b, n>> : a \in 1..(n - 1), b \in 1..(n - 1)} :
            c[1] < c[2]}

InitComb ==
  /\ KernelIdle /\ dynamic_threads = FALSE
  /\ SplitIdle /\ ArgIdle /\ RedIdle /\ CheckerIdle /\ ParIdle
  /\ LaterIdle({"comb"})
  /\ c_type \in {"argmax", "argmin"}
  /\ \E n \in 1..MaxLen : c_vals \in [1..n -> CombValues]
  /\ c_cuts \in Cuts(Len(c_vals))
  /\ c_k = 0 /\ c_i = 0
  /\ c_priv = [index |-> 0, value |-> Unset]
  /\ c_out = [index |-> 0, value |-> Unset]
  /\ c_pc = "start"

NextComb == CombDeclare \/ CombPrivate \/ CombIter \/ CombMerge

SpecComb == InitComb /\ [][NextComb]_vars

\* the kernels of one group, one after the other
InitSeq ==
  /\ KernelIdle /\ SplitIdle /\ ArgIdle /\ RedIdle /\ CheckerIdle /\ ParIdle
  /\ LaterIdle({"nest"})
  /\ dynamic_threads \in BOOLEAN
  /\ n_threads \in WsThreads
  /\ n_gcc = TRUE
  /\ n_kernel = [ranges |-> <<>>, reduction_depth |-> 0, rtype |-> "sum"]
  /\ n_vec = FALSE
  /\ loop_nest = [root |-> <<>>, kernel |-> "none"]
  /\ n_split = <<>> /\ n_par = 0
  /\ n_pc = "group"

NextSeq ==
  SeqNext \/ NestBuild \/ NestSplit \/ NestSetMain \/ NestSetTail
    \/ NestCodegen

SpecSeq == InitSeq /\ [][NextSeq]_vars

\* one fused body generated as vector main and scalar tail
InitPair ==
  /\ KernelIdle /\ dynamic_threads = FALSE
  /\ SplitIdle /\ ArgIdle /\ RedIdle /\ CheckerIdle /\ ParIdle
  /\ LaterIdle({"pair"})
  /\ PairIdle

NextPair == PairLoad \/ PairOp \/ PairReduction

SpecPair == InitPair /\ [][NextPair]_vars

\* create_kernel on a fused node list
NodeGroups(group, rgroup) ==
  {<<group, rgroup>>, <<group \o rgroup, <<>>>>, <<group, <<>>>>,
   <<<<5>>, <<>>>>}

InitCreate ==
  /\ KernelIdle /\ dynamic_threads = FALSE
  /\ SplitIdle /\ ArgIdle /\ RedIdle /\ CheckerIdle /\ ParIdle
  /\ LaterIdle({"create"})
  /\ k_group \in {<<>>, <<2>>}
  /\ k_rgroup \in {<<>>, <<3>>}
  /\ \E n \in 1..MaxNodes :
       k_nodes \in [1..n -> [grp : NodeGroups(k_group, k_rgroup),
                             raises : BOOLEAN]]
  /\ k_i = 1 /\ k_in_suffix = FALSE /\ k_log = <<>>
  /\ k_self = [loads |-> 1, compute |-> 2, stores |-> 3, cse |-> 4,
               reduction_suffix |-> <<>>]
  /\ k_obj = <<<<>>, <<>>, <<>>, {}>>
  /\ k_tmp = 0
  /\ k_before = NoBefore
  /\ k_exc = "" /\ k_pc = "run"

NextCreate == CreateNode \/ CreateReturn

SpecCreate == InitCreate /\ [][NextCreate]_vars

Spec == Init /\ [][Next]_vars

\* =================================================================== claims
\* C5: within one kernel body, scalar or vector, a load requested again with
\* the same buffer and the same index returns the handle of the first request
\* and adds no statement to the body (what computes the load appears once).
C5_RepeatedLoadComputedOnce ==
  \A i, j \in 1..Len(load_log) :
    (i < j /\ load_log[i].buf = load_log[j].buf
           /\ load_log[i].idx = load_log[j].idx)
      => (load_log[j].val = load_log[i].val /\ load_log[j].added = 0)

\* C7: a scalar store with mode atomic_add emits the plain `+=` exactly when
\* the thread count is 1 and the dynamic-threads flag is off, and the
\* atomic_add primitive in every other case.
AtomicAddStored ==
  /\ kclass = "scalar"
  /\ ret.op = "store"
  /\ ret.mode = "atomic_add"
  /\ raised = ""
C7_AtomicStoreSelection ==
  AtomicAddStored =>
    /\ Len(stores) = ret.prev.nstores + 1
    /\ stores[Len(stores)].txt =
         IF num_threads = 1 /\ dynamic_threads = FALSE
           THEN "var[idx] += value" ELSE "atomic_add(&var[idx], value)"
C7_Witness ==
  /\ AtomicAddStored
  /\ num_threads > 1
  /\ stores[Len(stores)].txt = "atomic_add(&var[idx], value)"

\* C9: on a kernel already bound by set_ranges, with any iteration space
\* including the empty one, a second call with the identical pair leaves
\* ranges, variables and reduction depth unchanged and returns the same
\* variables, and a second call with a different pair fails.
C9_RebindIdenticalOrFail ==
  (ret.op = "set_ranges" /\ ret.prev.nbind >= 1) =>
    IF ret.idx = ret.prev.call_ranges /\ ret.val = ret.prev.reduction_depth
      THEN /\ raised = ""
           /\ call_ranges = ret.prev.call_ranges
           /\ ranges = ret.prev.ranges
           /\ itervars = ret.prev.itervars
           /\ reduction_depth = ret.prev.reduction_depth
      ELSE raised # ""

\* C10: a load, store or reduction requested before set_ranges has bound the
\* kernel is rejected, and after the kernel's loop nest has been generated no
\* load, store or reduction adds statements to it.
KernelOp == ret.op \in {"load", "store", "reduction"}
C10_KernelLifecycle ==
  /\ (KernelOp /\ ret.prev.nbind = 0) => raised # ""
  /\ (KernelOp /\ ret.prev.finalized) =>
       /\ Len(loads) = ret.prev.nloads
       /\ Len(stores) = ret.prev.nstores
       /\ Len(reduction_prefix) = ret.prev.nprefix
       /\ Len(reduction_suffix) = ret.prev.nsuffix
\* C1: after split_with_tiling the main copy runs its variable over
\* [0, floor(N/W)) by 1 and the tail copy over [floor(N/W)*W, N) by 1, and the
\* elements the two loops handle are exactly [0, N), none of them twice.
C1_SplitCoversRangeOnce ==
  /\ split_pc \in {"run", "scalar", "done"} =>
       /\ main_loop.offset = 0 /\ main_loop.steps = 1
       /\ main_loop.size = N \div simd_nelements
       /\ tail_loop.offset = (N \div simd_nelements) * simd_nelements
       /\ tail_loop.steps = 1 /\ tail_loop.size = N
  /\ split_pc \in {"run", "scalar", "done"} =>
       \A e \in DOMAIN cover : cover[e] <= 1 /\ (e >= N => cover[e] = 0)
  /\ split_pc \in {"scalar", "done"} =>
       \A e \in DOMAIN cover : e < N => cover[e] = 1
C1_Witness ==
  /\ split_pc = "done"
  /\ main_loop.size >= 2
  /\ tail_loop.offset < N
  /\ simd_nelements >= 2

\* C2: for the pointwise add-then-relu kernel over a one-dimensional buffer,
\* the scalar-only rendering and the vector-main plus scalar-tail rendering
\* write the same value to every output element, for every input and every
\* order of the main and tail iterations.
C2_ScalarVectorSameOutput ==
  split_pc = "done" => \A e \in DOMAIN out_split : out_split[e] = out_scalar[e]
\* C3: the scalar argmax over a non-empty value sequence, run in iteration
\* order from the accumulator {0, identity}, flushes the smallest index that
\* holds the maximum ([3, 5, 5, 2] gives 1); argmin the smallest index that
\* holds the minimum.
Better(x, y) == IF a_type = "argmax" THEN FLt(y, x) ELSE FLt(x, y)
FirstBest(i) ==
  /\ i \in 0..(Len(a_vals) - 1)
  /\ \A j \in 0..(Len(a_vals) - 1) : ~Better(a_vals[j + 1], a_vals[i + 1])
  /\ \A j \in 0..(i - 1) : a_vals[j + 1] # a_vals[i + 1]
C3_ArgReportsFirstExtreme == a_pc = "done" => FirstBest(a_out)
C3_Witness ==
  /\ a_pc = "done"
  /\ a_type = "argmax"
  /\ a_vals = <<Fin(3), Fin(5), Fin(5), Fin(2)>>
  /\ a_out = 1

\* C4: for sum, max and min and every element type, the initial value
\* reduction_init chooses, combined with one input x by reduction_combine,
\* gives x: sum starts at 0, max at minus infinity (float) or the type's
\* minimum (integer), min at plus infinity or the type's maximum.
ExpectedIdentity ==
  CASE r_type = "sum" -> Fin(0)
    [] r_type = "max" ->
         (IF is_float_dtype(r_dtype) THEN NegInf ELSE Fin(TypeMin(r_dtype)))
    [] OTHER ->
         (IF is_float_dtype(r_dtype) THEN PosInf ELSE Fin(TypeMax(r_dtype)))
C6_VerdictStaysFalse == [][simd_vec = FALSE => simd_vec' = FALSE]_vars
C6_Witness ==
  /\ kclass = "checker"
  /\ ret.op = "load" /\ ret.buf = "in0" /\ ret.idx = Idx(1, 0)
  /\ Truthy(itervars)
  /\ raised = ""
  /\ ret.prev.simd_vec = FALSE
  /\ simd_vec = FALSE

\* C8: for every thread count T >= 1, decide_parallel_depth on the ranges
\* [1000, 4] with min_chunk_size 16 returns a depth of at most 1.
SpecCase ==
  /\ p_call_ranges = <<1000, 4>>
  /\ p_ranges = <<1000, 4>>
  /\ p_min_chunk = 16
C8_DepthAtMostOne == (p_pc = "done" /\ SpecCase) => p_depth <= 1
C8_Witness ==
  /\ p_pc = "done" /\ SpecCase
  /\ p_threads > 1
  /\ ~dynamic_threads
  /\ p_depth = 1
\* C11: after can_vec finishes, by a verdict or by a node's run raising, the
\* graph's wrapper_code, the ops handler and the kernel handler are the
\* objects active before the call, the group's argument table is as it was
\* (the checker ran on a deep copy), and each node was run at most once.
C11_CanVecRestores ==
  cv_pc = "done" =>
    /\ wrapper_code = cv_before.wrapper_code
    /\ ops_handler = cv_before.ops_handler
    /\ kernel_handler = cv_before.kernel_handler
    /\ args_table.group = cv_before.args
    /\ \A i \in DOMAIN cv_runs : cv_runs[i] <= 1
C11_Witness ==
  /\ cv_pc = "done"
  /\ cv_out = "raised"
  /\ cv_nodes = <<"sized", "raise", "vec">>
  /\ cv_runs = <<1, 1, 0>>
  /\ args_table.copy # args_table.group
  /\ wrapper_code = "cpp_wrapper"
\* C12: after any sequence of parallel(t), single() and close() at most one
\* parallel region is open in the emitted code; parallel(t) while a region of
\* the same thread count is open emits nothing, parallel(t) while a region of
\* another thread count is open closes that region and then emits the new
\* directive, and close() with no region open emits nothing.
Emitted == SubSeq(ws.code, Len(g_ret.prev.ws.code) + 1, Len(ws.code))
IsDirective(line) ==
  line.txt \in {"#pragma omp parallel", "#pragma omp parallel num_threads"}
C12_OneParallelRegion ==
  /\ OpenRegions(ws.code) = (IF ws.in_parallel THEN 1 ELSE 0)
  /\ (g_ret.op = "parallel" /\ g_ret.prev.ws.in_parallel
        /\ g_ret.prev.ws.num_threads = g_ret.threads) => Emitted = <<>>
  /\ (g_ret.op = "parallel" /\ g_ret.prev.ws.in_parallel
        /\ g_ret.prev.ws.num_threads # g_ret.threads) =>
       /\ Len(Emitted) = 3
       /\ Emitted[1].txt = "}"
       /\ IsDirective(Emitted[2])
       /\ Emitted[2].n = (IF dynamic_threads THEN 0 ELSE g_ret.threads)
       /\ Emitted[3].txt = "{"
  /\ (g_ret.op = "close" /\ ~g_ret.prev.ws.in_parallel) => Emitted = <<>>
C12_Witness ==
  /\ g_ret.op = "parallel"
  /\ g_ret.prev.ws.in_parallel
  /\ g_ret.prev.ws.num_threads = 2
  /\ g_ret.threads = 4
  /\ ~dynamic_threads
  /\ Len(ws.code) = 5
  /\ ws.num_threads = 4
\* C14: CppVecKernel.store fails for every index that does not depend on the
\* innermost iteration variable (its transformed index equals the index) and
\* for every mode other than None, and then adds no store statement.
VecStoreCalled == kclass = "vec" /\ ret.op = "store"
C14_VecStoreRejects ==
  (VecStoreCalled /\ (ret.idx[1] = 0 \/ ret.mode # "None")) =>
    /\ raised # ""
    /\ stores = SubSeq(stores, 1, ret.prev.nstores)
    /\ Len(stores) = ret.prev.nstores
C14_Witness ==
  /\ VecStoreCalled
  /\ ret.buf = "buf0" /\ ret.idx = Idx(0, 0) /\ ret.mode = "None"
  /\ Truthy(itervars) /\ Len(itervars) > 0
  /\ raised = "AssertionError"
  /\ Len(stores) = ret.prev.nstores

\* C15: CppVecKernel.reduction fails for every kind outside {sum, min, max}
\* and for every element or source type other than float32, and then leaves
\* the reduction prefix, the suffix, the stores and the reduction-variable
\* map as they were before the call.
VecReductionCalled == kclass = "vec" /\ ret.op = "reduction"
C15_VecReductionRejects ==
  (VecReductionCalled
     /\ (ret.mode \notin {"sum", "min", "max"} \/ ret.dtype # "float32"
           \/ ret.src_dtype # "float32")) =>
    /\ raised # ""
    /\ Len(reduction_prefix) = ret.prev.nprefix
    /\ Len(reduction_suffix) = ret.prev.nsuffix
    /\ Len(stores) = ret.prev.nstores
    /\ reduction_var_map = ret.prev.reduction_var_map
C15_Witness ==
  /\ VecReductionCalled
  /\ ret.mode = "sum" /\ ret.dtype = "float16" /\ ret.src_dtype = "float16"
  /\ raised = "AssertionError"
  /\ ret.prev.nprefix > 0
  /\ Len(reduction_prefix) = ret.prev.nprefix
\* C16: decide_parallel_depth returns a depth d with 0 <= d <= the number of
\* ranges; d >= 1 when the dynamic-threads flag is on and there is a range;
\* d = 0 when the flag is off and the thread count is 1.
C16_DepthWithinRanges ==
  p_pc = "done" =>
    /\ 0 <= p_depth /\ p_depth <= Len(p_ranges)
    /\ (dynamic_threads /\ Len(p_ranges) > 0) => p_depth >= 1
    /\ (~dynamic_threads /\ p_threads = 1) => p_depth = 0
C16_Witness ==
  /\ p_pc = "done"
  /\ ~dynamic_threads
  /\ p_ranges = <<2, 1000>>
  /\ p_threads = 4
  /\ p_depth = 2
\* C18: in a checker dry run a masked operation does not itself reject, but
\* a masked operation whose body holds an operation that rejects on its own
\* (index_expr, indirect_indexing, a load of a buffer that is not
\* float32/bool/uint8, an op off the allow-list) leaves the verdict false.
RejectsOnItsOwn(body) ==
  \/ body \in {"index_expr", "indirect_indexing"}
  \/ body = "load in3" /\ get_dtype("in3") \notin {"float32", "bool", "uint8"}
  \/ body \notin {"index_expr", "indirect_indexing", "load in3"}
       /\ body \notin fast_vec_list
C18_MaskedBodyChecked ==
  (kclass = "checker" /\ ret.op = "masked") =>
    /\ raised = ""
    /\ RejectsOnItsOwn(ret.buf) => simd_vec = FALSE
    /\ (~RejectsOnItsOwn(ret.buf) /\ ret.prev.simd_vec) => simd_vec = TRUE
\* C19: a checker load or store on a float32 buffer keeps the verdict true
\* only if the index does not depend on the innermost iteration variable or
\* depends on it with coefficient 1; any other coefficient, and any access
\* in a zero-dimension iteration space, sets the verdict to false.
CheckerAccess ==
  /\ kclass = "checker"
  /\ ret.op \in {"load", "store"}
  /\ get_dtype(ret.buf) = "float32"
  /\ raised = ""
C19_AccessLegality ==
  CheckerAccess =>
    /\ simd_vec => (ret.idx[1] \in {0, 1} /\ Len(itervars) > 0)
    /\ (ret.prev.simd_vec /\ ret.idx[1] \in {0, 1} /\ Len(itervars) > 0
          /\ ret.mode \in {"", "None"}) => simd_vec
C19_Witness ==
  /\ CheckerAccess
  /\ ret.op = "load"
  /\ ret.idx = Idx(2, 0)
  /\ Len(itervars) > 0
  /\ ret.prev.simd_vec
  /\ ~simd_vec
\* C17: on flush of a kernel group, if no kernel was finalized since the last
\* flush no artifact is handed to the wrapper; otherwise one define-kernel,
\* one load-kernel and one generate-call are issued, in that order and with
\* the same kernel name, after every open work-sharing scope of the group has
\* been closed; after the flush the scheduler holds a fresh group with zero
\* finalized kernels and no open parallel region.
Issued ==
  SubSeq(wrapper_calls, g_ret.prev.ncalls + 1, Len(wrapper_calls))
C17_FlushArtifacts ==
  g_ret.op = "flush" =>
    /\ IF g_ret.prev.count = 0 THEN Issued = <<>>
       ELSE /\ Len(Issued) = 3
            /\ Issued[1].op = "define_kernel"
            /\ Issued[2].op = "load_kernel"
            /\ Issued[3].op = "generate_kernel_call"
            /\ Issued[2].name = Issued[1].name
            /\ Issued[3].name = Issued[1].name
            /\ \A i \in 1..3 : Issued[i].open = 0
    /\ group_id # g_ret.prev.group_id
    /\ count = 0
    /\ ~ws.in_parallel /\ ws.stack = 0 /\ ws.code = <<>>
C17_Witness ==
  /\ g_ret.op = "flush"
  /\ g_ret.prev.count = 1
  /\ g_ret.prev.ws.in_parallel
  /\ Len(wrapper_calls) = 6
  /\ wrapper_calls[4].name # wrapper_calls[1].name
  /\ count = 0

\* ------------------------------------------------------------------ C20
HasChildren(root, p) == Inner(root, p) # <<>>

\* children and no kernel, or no children and a kernel
LevelShape(root, p) ==
  \/ HasChildren(root, p) /\ root[p].kernel = "none"
  \/ ~HasChildren(root, p) /\ root[p].kernel # "none"

\* no level that is not a reduction level lies below a reduction level
ReductionSuffix(root) ==
  \A p \in DOMAIN root :
    (Len(p) > 1 /\ is_reduction(root[Parent(p)])) => is_reduction(root[p])

NestReached == n_pc \notin {"idle", "start"}

\* the levels split_with_tiling returned that set_kernel was not yet called on
Unbound ==
  IF n_pc = "split" THEN {n_split[1], n_split[2]}
  ELSE IF n_pc = "main_set" THEN {n_split[2]}
  ELSE {}

\* C20 as stated: in every loop nest state reached through build,
\* split_with_tiling and set_kernel, every level has either children and no
\* kernel or no children and a kernel, and the reduction levels are an
\* innermost suffix of every chain. The code does not keep the first half:
\* the two loops split_with_tiling returns for the innermost level are leaves
\* without a kernel until set_kernel is called on each.
C20_NestInvariant ==
  NestReached =>
    /\ \A p \in DOMAIN loop_nest.root : LevelShape(loop_nest.root, p)
    /\ ReductionSuffix(loop_nest.root)

\* C20 amended: the reduction levels are an innermost suffix of every chain in
\* every state; every level has either children and no kernel or no children
\* and a kernel in every nest handed to code generation (after build, and
\* after split_with_tiling once set_kernel was called on the main and on the
\* tail loop); in between, the only levels without either are the leaves
\* split_with_tiling returned that set_kernel was not yet called on.
C20_NestInvariantOnceBound ==
  NestReached =>
    /\ ReductionSuffix(loop_nest.root)
    /\ \A p \in DOMAIN loop_nest.root :
         IF p \in Unbound
           THEN ~HasChildren(loop_nest.root, p)
                  /\ loop_nest.root[p].kernel = "none"
           ELSE LevelShape(loop_nest.root, p)

\* a split nest with both kernels bound, reduction levels below a
\* non-reduction level
C20_Witness ==
  /\ n_pc = "ready"
  /\ \E p \in DOMAIN loop_nest.root :
       /\ Len(Inner(loop_nest.root, p)) = 2
       /\ ~is_reduction(loop_nest.root[p])
       /\ is_reduction(loop_nest.root[p \o <<1>>])
       /\ loop_nest.root[p \o <<1>>].kernel = "vec"
       /\ loop_nest.root[p \o <<2>>].kernel = "scalar"

\* ------------------------------------------------------------------ C13
KernelLine(tok) == "kernel" \in DOMAIN tok

\* the lines of the code that write the reduction's output buffer
OutputWrites ==
  {i \in DOMAIN ws.code :
     /\ KernelLine(ws.code[i])
     /\ ws.code[i].buf = NestOut
     /\ ws.code[i].dst = -1}

\* the lines folding the horizontal reduce of the vector accumulator into
\* the scalar accumulator
VecFolds ==
  {i \in DOMAIN ws.code :
     /\ KernelLine(ws.code[i])
     /\ ws.code[i].kernel = "vec"
     /\ ws.code[i].arg = "vec_reduce_all(tmpvar_vec)"}

\* the loop headers over the innermost (split) reduction variable
SplitLoops ==
  {i \in DOMAIN ws.code :
     /\ ws.code[i].txt = "for"
     /\ ws.code[i].n = Len(n_kernel.ranges) - 1}

\* how many blocks are open after line m
BraceDepth(m) ==
  Cardinality({x \in 1..m : ws.code[x].txt = "{"})
    - Cardinality({x \in 1..m : ws.code[x].txt = "}"})

\* the loop whose header is line i is closed before line j
ClosedBefore(i, j) ==
  \E m \in (i + 1)..(j - 1) : BraceDepth(m) = BraceDepth(i)

VecReductionGenerated ==
  /\ n_pc = "done"
  /\ n_vec
  /\ n_kernel.reduction_depth < Len(n_kernel.ranges)

RECURSIVE HeapSub(_, _)
HeapSub(h, l) ==
  {l} \cup UNION {HeapSub(h, h.ls[h.lv[l].inner][i]) :
                    i \in 1..Len(h.ls[h.lv[l].inner])}

\* two sets of levels share no level, child list, map or kernel
SharedLevels(h, A, B) == A \cap B
SharedLists(h, A, B) ==
  {h.lv[l].inner : l \in A} \cap {h.lv[l].inner : l \in B}
SharedMaps(h, A, B) ==
  ({h.lv[l].map : l \in A} \cap {h.lv[l].map : l \in B}) \ {0}
SharedKernels(h, A, B) ==
  ({h.lv[l].kernel : l \in A} \cap {h.lv[l].kernel : l \in B}) \ {0}

Independent(h, A, B) ==
  /\ SharedLevels(h, A, B) = {}
  /\ SharedLists(h, A, B) = {}
  /\ SharedMaps(h, A, B) = {}
  /\ SharedKernels(h, A, B) = {}

\* every level below l has for parent the level whose list holds it
RECURSIVE ParentsRight(_, _)
ParentsRight(h, l) ==
  \A i \in 1..Len(h.ls[h.lv[l].inner]) :
    /\ h.lv[h.ls[h.lv[l].inner][i]].parent = l
    /\ ParentsRight(h, h.ls[h.lv[l].inner][i])

\* what a subtree holds: every field of every level, maps and kernels by
\* content
RECURSIVE SubtreeValue(_, _)
SubtreeValue(h, l) ==
  [var |-> h.lv[l].var, size |-> h.lv[l].size, offset |-> h.lv[l].offset,
   map |-> IF h.lv[l].map = 0 THEN {} ELSE h.dm[h.lv[l].map],
   kernel |-> IF h.lv[l].kernel = 0 THEN "none" ELSE h.kn[h.lv[l].kernel],
   inner |-> [i \in 1..Len(h.ls[h.lv[l].inner]) |->
                SubtreeValue(h, h.ls[h.lv[l].inner][i])]]

SplitAboveLeaf ==
  /\ h_pc \in {"split", "set"}
  /\ h_depth < Len(h_k.ranges) - 1

\* C21: after split_with_tiling at a level with levels below it, the main
\* subtree, the tail subtree and the replaced original share no level, child
\* list, map or kernel, every parent reference is the level whose list holds
\* the level, and set_kernel on main_loop changes nothing under tail_loop.
C21_SplitCopiesIndependent ==
  SplitAboveLeaf =>
    LET h == IF h_pc = "set" THEN h_before.heap ELSE heap
        M == HeapSub(h, h_ret[1])
        T == HeapSub(h, h_ret[2])
        O == HeapSub(h, h_orig)
    IN /\ Independent(h, M, T)
       /\ Independent(h, M, O)
       /\ Independent(h, T, O)
       /\ ParentsRight(h, h_ret[1])
       /\ ParentsRight(h, h_ret[2])
       /\ (h_pc = "set" /\ h_before.on = 1) =>
            SubtreeValue(heap, h_ret[2]) = SubtreeValue(h_before.heap, h_ret[2])


\* ------------------------------------------------------------------ C22
\* the lines of the code that open a parallel region
Directives ==
  {i \in DOMAIN ws.code :
     ws.code[i].txt \in {"#pragma omp parallel",
                         "#pragma omp parallel num_threads"}}

\* line i lies in a parallel region that is still open
InRegion(i) == \E d \in Directives : d < i /\ ~ClosedBefore(d, i)

\* the accumulator declarations and the lines after the reduction loops
PrefixLines ==
  {i \in DOMAIN ws.code :
     /\ KernelLine(ws.code[i])
     /\ ws.code[i].txt \in {"T tmpvar = init",
                            "auto tmpvar_vec = at::vec::Vectorized<T>(tmpvar)",
                            "#pragma omp declare reduction(vec)"}}

SuffixLines ==
  {i \in DOMAIN ws.code : KernelLine(ws.code[i]) /\ ws.code[i].buf = NestOut}

LoopHeaders == {i \in DOMAIN ws.code : ws.code[i].txt = "for"}

ReductionOnlyParallel ==
  /\ n_pc = "done"
  /\ Len(n_kernel.ranges) > 0
  /\ n_kernel.reduction_depth = 0
  /\ n_par > 0

\* C22: for a nest of reduction levels only with a parallel depth > 0, a
\* region an earlier kernel left open is closed first, then come the
\* accumulator declarations, the parallel directive, the loops, the close
\* of the region and the suffix; neither declarations nor suffix lie in a
\* parallel region.
C22_ReductionOnlyOrder ==
  ReductionOnlyParallel =>
    \E d \in Directives :
      /\ \A e \in Directives : e <= d
      /\ PrefixLines # {} /\ SuffixLines # {} /\ LoopHeaders # {}
      /\ \A e \in Directives \ {d}, q \in PrefixLines : ClosedBefore(e, q)
      /\ \A q \in PrefixLines : q < d
      /\ \A f \in LoopHeaders : d < f /\ ~ClosedBefore(d, f)
      /\ \A x \in SuffixLines :
           /\ ClosedBefore(d, x)
           /\ \A f \in LoopHeaders : f < x
      /\ \A i \in PrefixLines \cup SuffixLines : ~InRegion(i)

\* such a nest, split for the vector kernel, generated while an earlier
\* kernel's region was open
C22_Witness ==
  /\ ReductionOnlyParallel
  /\ n_vec
  /\ Cardinality(Directives) = 2


\* ------------------------------------------------------------------ C23
\* what CppVecKernel.store raises on a store, "" when it emits the store
VecStoreRaises(name, index, mode) ==
  IF ~HasBuf(name) \/ mode # "None" THEN "AssertionError"
  ELSE IF InnermostError # "" THEN InnermostError
  ELSE IF BroadcastIndex(index) THEN "AssertionError"
  ELSE ""

\* the checker's store returned and left the verdict true
CheckerAcceptedStore ==
  /\ kclass = "checker"
  /\ ret.op = "store"
  /\ raised = ""
  /\ simd_vec

\* C23: a store to a float32 buffer that CppVecKernelChecker.store leaves
\* the verdict true on is a store CppVecKernel.store emits: with the same
\* ranges bound, it passes every assertion of the vector kernel's store.
C23_AcceptedStoreEmits ==
  CheckerAcceptedStore => VecStoreRaises(ret.buf, ret.idx, ret.mode) = ""


\* ------------------------------------------------------------------ C24
\* the sequential loop over the values from iteration i on
RECURSIVE SeqArg(_, _, _, _)
SeqArg(type, acc, i, vals) ==
  IF i = Len(vals) THEN acc
  ELSE SeqArg(type, ArgBody(type, acc, i, vals[i + 1]), i + 1, vals)

\* C24: merging the threads' partial results in chunk order with the
\* declared combiner gives the index the sequential loop gives, the first
\* occurrence of the maximum (minimum).
C24_CombineKeepsFirst ==
  c_pc = "done" =>
    c_out.index = SeqArg(c_type, ArgInit(c_type), 0, c_vals).index


\* ------------------------------------------------------------------ C25
\* the code of the kernel generated last
KernelCodeStart == Len(g_ret.prev.ws.code) + 1

SerialKernelInOpenRegion ==
  /\ n_pc = "done"
  /\ g_ret.op = "finalize_kernel"
  /\ n_par = 0
  /\ g_ret.prev.ws.in_parallel

\* C25: a kernel of parallel depth 0 whose code is generated while a
\* parallel region is open starts with a single directive.
C25_SerialKernelUnderSingle ==
  SerialKernelInOpenRegion =>
    ws.code[KernelCodeStart].txt = "#pragma omp single"


\* ------------------------------------------------------------------ C26
PairGenerated == q_pc = "reduced" /\ q_ok

\* C26: the accumulator the vector kernel declares in the prefix and folds
\* into is the one the scalar tail combines into and flushes.
C26_SameAccumulator ==
  PairGenerated =>
    /\ q_out.declared = q_out.folded
    /\ q_out.combined = q_out.flushed
    /\ q_out.declared = q_out.combined


\* ------------------------------------------------------------------ C27
\* two loads of one bool/byte buffer at different indices that both depend
\* on the innermost variable
FlagLoadPair(i, j) ==
  /\ i < j
  /\ load_log[i].buf = load_log[j].buf
  /\ IsFlagDtype(load_log[i].buf)
  /\ load_log[i].idx # load_log[j].idx
  /\ ~is_var_irrevelant(load_log[i].idx)
  /\ ~is_var_irrevelant(load_log[j].idx)

ScratchDeclarations(name) ==
  {n \in 1..Len(loads) :
     /\ loads[n].txt = "float g_tmp_buffer_var[nelements] = {0}"
     /\ loads[n].buf = name}

\* C27: in a vector kernel such a pair of loads returns two distinct
\* handles and the buffer's scratch buffer is declared exactly once.
C27_FlagLoadsDistinct ==
  kclass = "vec" =>
    \A i, j \in 1..Len(load_log) :
      FlagLoadPair(i, j) =>
        /\ load_log[i].val # load_log[j].val
        /\ Cardinality(ScratchDeclarations(load_log[i].buf)) = 1


\* ------------------------------------------------------------------ C28
\* a level with a sibling, or under a level with one
HasSibling(p) == Len(Inner(loop_nest.root, Parent(p))) > 1
AtOrBelowSplit(p) ==
  \E d \in 1..Len(p) : HasSibling(SubSeq(p, 1, d))

Marked(p) ==
  loop_nest.root[p].parallel > 0 \/ loop_nest.root[p].collapsed

\* the depth the single-child chain of one kind reaches from the root
RECURSIVE ChainDepth(_)
ChainDepth(p) ==
  LET loops == Inner(loop_nest.root, p) IN
  IF Len(loops) = 1
       /\ is_reduction(loop_nest.root[loops[1]])
            = is_reduction(loop_nest.root[<<1>>])
    THEN 1 + ChainDepth(loops[1])
    ELSE 0

\* C28: the depth chosen is within the nest's maximal parallel depth, and
\* no level at or below a split is marked parallel or collapsed.
C28_ParallelDepthAllowed ==
  n_pc = "done" =>
    /\ n_par <= (IF DOMAIN loop_nest.root = {} THEN 0 ELSE ChainDepth(<<>>))
    /\ \A p \in DOMAIN loop_nest.root :
         Marked(p) => ~AtOrBelowSplit(p) /\ p \in MarkedLevels(n_par)

C28_Witness ==
  /\ n_pc = "done"
  /\ n_split # <<>>
  /\ n_par = 2
  /\ \E p \in DOMAIN loop_nest.root : loop_nest.root[p].collapsed


\* ------------------------------------------------------------------ C29
\* node b of the list breaks the order: its group is none of the three, or
\* it iterates the full space after a pointwise-only node
Offending(b) ==
  \/ ~FullSpace(k_nodes[b].grp) /\ ~PointwiseOnly(k_nodes[b].grp)
  \/ /\ FullSpace(k_nodes[b].grp)
     /\ \E a \in 1..(b - 1) : PointwiseOnly(k_nodes[a].grp)

\* C29: with a non-empty reduction group, the nodes run are run full-space
\* first (in the loop body) and pointwise-only after them (in the suffix);
\* a list with a full-space node after a pointwise-only one, or with a node
\* of another group, never yields a kernel, and an assertion failure is
\* raised at such a node.
C29_FullSpaceBeforePointwise ==
  k_rgroup # <<>> =>
    /\ \A a, b \in 1..Len(k_log) :
         a < b => ~(k_log[a].suffix /\ ~k_log[b].suffix)
    /\ \A a \in 1..Len(k_log) :
         k_log[a].suffix <=> PointwiseOnly(k_nodes[k_log[a].node].grp)
    /\ \A a \in 1..Len(k_log) :
         ~k_log[a].suffix <=> FullSpace(k_nodes[k_log[a].node].grp)
    /\ k_pc = "done" => \A b \in 1..Len(k_nodes) : ~Offending(b)
    /\ (k_pc = "run" /\ k_i <= Len(k_nodes)) =>
         \A b \in 1..(k_i - 1) : ~Offending(b)
    /\ (k_pc = "failed" /\ k_exc = "AssertionError") => Offending(k_i)

C29_Witness ==
  /\ k_rgroup # <<>>
  /\ k_pc = "failed" /\ k_exc = "AssertionError"
  /\ FullSpace(k_nodes[k_i].grp)
  /\ Len(k_log) = 2
  /\ ~k_log[1].suffix /\ k_log[2].suffix

\* ------------------------------------------------------------------ C30
KernelBuffers == {"loads", "compute", "stores", "cse"}

\* C30: after write_to_suffix has exited normally the kernel's loads,
\* compute, stores and cse are the objects they were at entry, with the
\* contents they had, and the reduction suffix is what it was followed by
\* the block's loads, compute and stores.
C30_SuffixBlockFrame ==
  k_before.exited =>
    /\ \A f \in KernelBuffers :
         /\ k_self[f] = k_before.self[f]
         /\ k_obj[k_self[f]] = k_before.obj[k_before.self[f]]
    /\ k_self.reduction_suffix =
         k_before.self.reduction_suffix \o k_before.loads
           \o k_before.compute \o k_before.stores

C30_Witness ==
  /\ k_before.exited
  /\ k_before.self.reduction_suffix # <<>>
  /\ k_before.obj[k_before.self.loads] # <<>>
  /\ k_before.loads # <<>> /\ k_before.stores # <<>>

====
